---- MODULE Spec2Model ----
(***************************************************************************)
(* BFF gateway: the auth guard, the upstream clients' error translation,   *)
(* the aggregation handlers of the property and transfer routes and the    *)
(* error normalizer, as a state machine that handles one request after     *)
(* another.  An action is one synchronous run of JavaScript: from the      *)
(* arrival of a request or of an upstream reply up to the next await or    *)
(* to the response.                                                        *)
(***************************************************************************)
EXTENDS Integers, Sequences, FiniteSets, TLC

VARIABLES
  authBuild,   \* which revision of middlewares/auth.middleware the build links
  req,         \* the request being handled: [route, header, params, body]
  pc,          \* position of the request: "idle", "guard", "handler", an await label, "done"
  user,        \* req.user, the identity claims attached by the guard
  handlerRan,  \* whether the route's handler body has started to execute
  calls,       \* upstream calls issued for this request, in issue order
  db,          \* what the handler holds from the primary (Orchestrator) source
  fan,         \* GET /properties/my: per listed property, the settled entry or Pending
  thrown,      \* the failure delivered to the error normalizer, if any
  resp,        \* the response sent, if any
  sent,        \* how many responses have been written for the request
  handled,     \* how many failures of the request have reached the error normalizer
  nexts,       \* how many times optionalAuth has passed control to the next handler
  cache,       \* utils/aggregation: the module-level Map, key -> [data, timestamp]
  clock,       \* Date.now()
  written,     \* per key, the latest setCache that clearCache has not removed since
  cacheOp,     \* the latest call of getCached, setCache or clearCache, with its result
  parked       \* a second request in flight, suspended at an await

\* what no route handler touches
aside == <<nexts, cache, clock, written, cacheOp, parked>>

vars == <<authBuild, req, pc, user, handlerRan, calls, db, fan, thrown, resp, sent, handled,
          nexts, cache, clock, written, cacheOp, parked>>

(***************************************************************************)
(* JavaScript values, tagged with their type so that ||, ! and ?. can be   *)
(* computed as the language computes them.                                 *)
(***************************************************************************)
Undef == [t |-> "undefined"]
Null == [t |-> "null"]
Str(s) == [t |-> "string", v |-> s]
Num(n) == [t |-> "number", v |-> n]
Bool(b) == [t |-> "boolean", v |-> b]
Arr(s) == [t |-> "array", v |-> s]
Obj(r) == [t |-> "object", v |-> r]

Falsy(x) ==
  \/ x.t \in {"undefined", "null", "NaN"}
  \/ x.t = "number" /\ x.v = 0
  \/ x.t = "string" /\ Len(x.v) = 0
  \/ x.t = "boolean" /\ ~x.v

Truthy(x) == ~Falsy(x)

\* a || b
Or(a, b) == IF Truthy(a) THEN a ELSE b

\* o.f for a value o that is not null or undefined (undefined when o has no such property)
Get(o, f) == IF o.t = "object" /\ f \in DOMAIN o.v THEN o.v[f] ELSE Undef

\* o?.f
OptGet(o, f) == IF o.t \in {"undefined", "null"} THEN Undef ELSE Get(o, f)

None == [none |-> TRUE]
Pending == [pending |-> TRUE]

(***************************************************************************)
(* Errors and the error normalizer (middlewares/error.middleware).         *)
(***************************************************************************)
AppError(message, statusCode, errors) ==
  [name |-> "AppError", message |-> message, statusCode |-> statusCode, errors |-> errors]

TypeError(message) == [name |-> "TypeError", message |-> message]

EnvelopeOf(err) ==
  Obj([message |-> Str(err.message), statusCode |-> Num(err.statusCode), errors |-> err.errors])

GenericEnvelope == Obj([message |-> Str("Internal server error"), statusCode |-> Num(500)])

errorHandler_leaky(err) ==
  IF err.name = "AppError"
  THEN [status |-> err.statusCode, body |-> EnvelopeOf(err)]
  ELSE [status |-> 500, body |-> Obj([message |-> Str(err.message), statusCode |-> Num(500)])]

errorHandler(err) ==
  IF err.name = "AppError"
  THEN [status |-> err.statusCode, body |-> EnvelopeOf(err)]
  ELSE [status |-> 500, body |-> GenericEnvelope]

(***************************************************************************)
(* Upstream failures as axios reports them, and the two clients' response  *)
(* interceptors.                                                           *)
(***************************************************************************)
NoResponse == [absent |-> TRUE]

AxiosErrors ==
  { [response |-> [status |-> 404, data |-> Obj([message |-> Str("Not found")])], request |-> TRUE],
    [response |-> [status |-> 400, data |-> Obj([errors |-> Arr(<<Str("field is invalid")>>)])],
     request |-> TRUE],
    [response |-> [status |-> 502, data |-> Null], request |-> TRUE],
    [response |-> [status |-> 500, data |-> Str("")], request |-> TRUE],
    [response |-> NoResponse, request |-> TRUE],
    [response |-> NoResponse, request |-> FALSE] }

HasResponse(error) == error.response # NoResponse

OrchestratorInterceptor(error) ==
  IF HasResponse(error)
  THEN IF error.response.data.t \notin {"null", "undefined"}
       THEN AppError(Or(Get(error.response.data, "message"), Str("Orchestrator service error")).v,
                     error.response.status,
                     Get(error.response.data, "errors"))
       ELSE TypeError("Cannot read properties of null (reading 'message')")
  ELSE IF error.request
       THEN AppError("Orchestrator service is unavailable", 503, Undef)
       ELSE AppError("Failed to call Orchestrator service", 500, Undef)

OffchainInterceptor(error) ==
  IF HasResponse(error)
  THEN IF error.response.data.t \notin {"null", "undefined"}
       THEN AppError(Or(Get(error.response.data, "message"), Str("Blockchain service error")).v,
                     error.response.status,
                     Undef)
       ELSE TypeError("Cannot read properties of null (reading 'message')")
  ELSE IF error.request
       THEN AppError("Blockchain service is unavailable", 503, Undef)
       ELSE AppError("Failed to call blockchain service", 500, Undef)

OrchestratorFailures == { OrchestratorInterceptor(e) : e \in AxiosErrors }
OffchainFailures == { OffchainInterceptor(e) : e \in AxiosErrors }

(***************************************************************************)
(* The auth guard.  Two revisions of middlewares/auth.middleware are in    *)
(* the repository: one verifies the credential, one checks only the form   *)
(* of the header.                                                          *)
(***************************************************************************)
Absent == <<>>

Tokens == {"tok.alice", "tok.bob", "tok.expired", "tok.forged", "tok.forgedExpired"}

Claims(token) ==
  IF token = "tok.bob"
  THEN [userId |-> "u2", email |-> "bob@x.org", role |-> "ADMIN"]
  ELSE [userId |-> "u1", email |-> "alice@x.org", role |-> "USER"]

SignatureValid(token) == token \in {"tok.alice", "tok.bob", "tok.expired"}
Expired(token) == token \in {"tok.expired", "tok.forgedExpired"}

\* jwt.verify(token, secret): the signature is checked before the expiry
jwtVerify(token) ==
  IF ~SignatureValid(token) THEN [threw |-> "JsonWebTokenError"]
  ELSE IF Expired(token) THEN [threw |-> "TokenExpiredError"]
  ELSE [decoded |-> Claims(token)]

\* the Authorization header after authHeader.split(' '); Absent when there is none
Headers ==
  {Absent} \cup { <<"Bearer", t>> : t \in Tokens }
           \cup { <<"Basic", "dXNlcjpwdw==">>, <<"Bearer">>, <<"Bearer", "tok.alice", "x">>,
                  <<"bearer", "tok.alice">> }

Accept(claims) == [ok |-> TRUE, user |-> claims]
Reject(err) == [ok |-> FALSE, err |-> err]

authenticateJWT_verify(parts) ==
  IF parts = Absent
  THEN Reject(AppError("No authorization header provided", 401, Undef))
  ELSE IF Len(parts) # 2 \/ parts[1] # "Bearer"
  THEN Reject(AppError("Invalid authorization header format. Expected: Bearer <token>", 401, Undef))
  ELSE LET r == jwtVerify(parts[2]) IN
       IF "decoded" \in DOMAIN r
       THEN Accept([userId |-> r.decoded.userId, email |-> r.decoded.email, role |-> r.decoded.role])
       ELSE IF r.threw = "TokenExpiredError"
       THEN Reject(AppError("Token expired", 401, Undef))
       ELSE IF r.threw = "JsonWebTokenError"
       THEN Reject(AppError("Invalid token", 401, Undef))
       ELSE Reject(AppError("Token validation failed", 401, Undef))

authenticateJWT_headerOnly(parts) ==
  IF parts = Absent
  THEN Reject(AppError("No authorization header provided", 401, Undef))
  ELSE IF Len(parts) # 2 \/ parts[1] # "Bearer"
  THEN Reject(AppError("Invalid authorization header format. Expected: Bearer <token>", 401, Undef))
  ELSE Accept(None)

authenticateJWT(parts) ==
  IF authBuild = "verify" THEN authenticateJWT_verify(parts) ELSE authenticateJWT_headerOnly(parts)

\* what a run of optionalAuth does: how often it calls next, the claims it leaves on the
\* request, what it throws
Passed(claims) == [nexts |-> 1, user |-> claims, threw |-> None]

\* as optionalAuth, without the try/catch around the guard
optionalAuth_noCatch(parts) ==
  IF parts = Absent
  THEN Passed(None)
  ELSE LET g == authenticateJWT(parts) IN
       IF g.ok THEN Passed(g.user) ELSE [nexts |-> 0, user |-> None, threw |-> g.err]

\* the guard either calls next itself or throws before it does; the catch then calls next
optionalAuth(parts) ==
  IF parts = Absent
  THEN Passed(None)
  ELSE LET g == authenticateJWT(parts) IN
       IF g.ok THEN Passed(g.user) ELSE Passed(None)

(***************************************************************************)
(* Upstream payloads.                                                      *)
(***************************************************************************)
MaxProps == 2

\* a text whose characters the code inspects is held as the sequence of its characters
Rep(c, n) == [i \in 1..n |-> c]
Wallet(c) == Str(<<"0", "x">> \o Rep(c, 40))

WalletA == Wallet("a")
WalletB == Wallet("b")

PropertyDTO(m, owner, regular, created) ==
  Obj([matriculaId |-> Num(m), folha |-> Num(12), comarca |-> Str("Recife"),
       endereco |-> Str("Rua A"), metragem |-> Num(80), proprietario |-> owner,
       tipo |-> Str("URBANO"), isRegular |-> regular, matriculaOrigem |-> Undef,
       blockchainTxHash |-> Str("0xfeed"), createdAt |-> created,
       updatedAt |-> Str("2024-02-02")])

DbProperties ==
  { PropertyDTO(1, WalletA, Bool(TRUE), Str("2024-01-01")),
    PropertyDTO(2, WalletB, Undef, Undef) }

BlockchainProperties ==
  { Obj([ownerWallet |-> WalletB, tokenId |-> Str("77"), txHash |-> Str("0xbeef"),
         status |-> Str("confirmed"), isFrozen |-> Bool(TRUE)]),
    Obj([isFrozen |-> Bool(FALSE)]) }

Approval(entity) == Obj([entity |-> Str(entity), approved |-> Bool(TRUE)])

DbTransfers ==
  { Obj([transferId |-> Str("db-7"), matriculaId |-> Str("1"), seller |-> WalletA,
         buyer |-> WalletB, status |-> Str("PENDING"),
         approvals |-> Arr(<<Approval("cartorio")>>), createdAt |-> Str("2024-03-03")]),
    Obj([matriculaId |-> Str("2"), seller |-> WalletB, buyer |-> WalletA,
         status |-> Str("CREATED"), createdAt |-> Str("2024-04-04")]),
    Str(""),
    Null }

BlockchainTransfers ==
  { Obj([status |-> Str("APPROVED"),
         approvals |-> Arr(<<Approval("cartorio"), Approval("prefeitura")>>),
         buyerAccepted |-> Bool(TRUE)]),
    Obj([status |-> Str(""), approvals |-> Arr(<<>>)]),
    Obj([buyerAccepted |-> Bool(FALSE)]) }

\* sequences over S of length 0..n
RECURSIVE SeqsUpTo(_, _)
SeqsUpTo(S, n) ==
  IF n = 0 THEN {<<>>}
  ELSE LET shorter == SeqsUpTo(S, n - 1) IN
       shorter \cup { Append(s, x) : s \in { q \in shorter : Len(q) = n - 1 }, x \in S }

PropertyLists == SeqsUpTo(DbProperties, MaxProps)

\* what an awaited upstream call can settle to
Replies(payloads, failures) ==
  { [ok |-> TRUE, data |-> d] : d \in payloads } \cup { [ok |-> FALSE, err |-> e] : e \in failures }

\* an upstream call in flight; reply becomes what the awaited call settles to
Call(svc, op, key) == [svc |-> svc, op |-> op, key |-> key, reply |-> Pending]

Settled(cs, i, r) == [cs EXCEPT ![i].reply = r]

Succeeded(call) == call.reply # Pending /\ call.reply.ok
Failed(call) == call.reply # Pending /\ ~call.reply.ok

(***************************************************************************)
(* Requests.                                                               *)
(***************************************************************************)
Guarded ==
  { "PUT /auth/wallet", "GET /properties/my", "POST /properties/register",
    "POST /transfers/configure", "POST /transfers/approve", "POST /transfers/accept",
    "POST /transfers/execute", "GET /transfers/my", "GET /transfers/pending" }

MatriculaIds == {"1", "2"}
TransferIds == {"7"}

Request(route, header, params, body) ==
  [route |-> route, header |-> header, params |-> params, body |-> body]

NoParams == [none |-> TRUE]

(***************************************************************************)
(* How a run of handler code ends.                                         *)
(***************************************************************************)
\* res.status(status).json(body)
Send(status, body) ==
  /\ resp' = [status |-> status, body |-> body]
  /\ sent' = sent + 1
  /\ UNCHANGED <<thrown, handled>>
  /\ pc' = "done"

\* res.json(body)
json(body) == Send(200, body)

\* a rejection that nothing catches: no response is written and the request hangs
Fail_unhandled(err) ==
  /\ thrown' = err
  /\ pc' = "unhandledRejection"
  /\ UNCHANGED <<resp, sent, handled>>

\* a throw that reaches Express, or a rejection that asyncHandler passes to next
Fail(err) ==
  /\ thrown' = err
  /\ handled' = handled + 1
  /\ resp' = errorHandler(err)
  /\ sent' = sent + 1
  /\ pc' = "done"

Await(label) ==
  /\ pc' = label
  /\ UNCHANGED <<resp, thrown, sent, handled>>

ReadOfUndefinedUser == TypeError("Cannot read properties of undefined (reading 'userId')")

(***************************************************************************)
(* GET /properties/my (routes/property.routes): the Orchestrator list,     *)
(* then one Offchain enrichment per listed property, all awaited together. *)
(***************************************************************************)
DbFields(dbProp) ==
  [matriculaId |-> Get(dbProp, "matriculaId"),
   folha |-> Get(dbProp, "folha"),
   comarca |-> Get(dbProp, "comarca"),
   endereco |-> Get(dbProp, "endereco"),
   metragem |-> Get(dbProp, "metragem"),
   matriculaOrigem |-> Get(dbProp, "matriculaOrigem"),
   ownerWalletAddress |-> Get(dbProp, "proprietario"),
   propertyType |-> Get(dbProp, "tipo"),
   regularStatus |-> IF Truthy(Get(dbProp, "isRegular")) THEN Str("REGULAR") ELSE Str("IRREGULAR"),
   blockchainTxHash |-> Get(dbProp, "blockchainTxHash"),
   createdAt |-> Get(dbProp, "createdAt"),
   updatedAt |-> Get(dbProp, "updatedAt")]

WithBlockchain(fields, blockchain) ==
  Obj([f \in DOMAIN fields \cup {"blockchain"} |->
         IF f = "blockchain" THEN blockchain ELSE fields[f]])

\* the value the try block of the per-property closure returns
EnrichedEntry(dbProp, blockchainData) == WithBlockchain(DbFields(dbProp), blockchainData)

\* the value its catch block returns
DbOnlyEntry(dbProp) == WithBlockchain(DbFields(dbProp), Null)

\* dbProp.matriculaId.toString()
MatriculaKey(dbProp) == ToString(Get(dbProp, "matriculaId").v)

EnrichmentCalls(dbProperties) ==
  [i \in 1..Len(dbProperties) |->
     Call("offchain", "getPropertyFromBlockchain", MatriculaKey(dbProperties[i]))]

PropertiesMy_Start ==
  /\ pc = "handler"
  /\ req.route = "GET /properties/my"
  /\ handlerRan' = TRUE
  /\ IF user = None
     THEN /\ Fail(ReadOfUndefinedUser)
          /\ UNCHANGED calls
     ELSE /\ calls' = Append(calls, Call("orchestrator", "getUserProperties", user.userId))
          /\ Await("my:db")
  /\ UNCHANGED <<authBuild, aside, req, user, db, fan>>

PropertiesMy_List ==
  /\ pc = "my:db"
  /\ \E r \in Replies(PropertyLists, OrchestratorFailures) :
       IF ~r.ok
       THEN /\ calls' = Settled(calls, 1, r)
            /\ Fail(r.err)
            /\ UNCHANGED <<db, fan>>
       ELSE IF Len(r.data) = 0
       THEN /\ calls' = Settled(calls, 1, r)
            /\ json(Arr(<<>>))
            /\ UNCHANGED <<db, fan>>
       ELSE /\ calls' = Settled(calls, 1, r) \o EnrichmentCalls(r.data)
            /\ db' = Arr(r.data)
            /\ fan' = [i \in 1..Len(r.data) |-> Pending]
            /\ Await("my:fan")
  /\ UNCHANGED <<authBuild, aside, req, user, handlerRan>>

\* as PropertiesMy_Enrich, without the per-property catch: a failed enrichment rejects the batch
PropertiesMy_Enrich_failFast ==
  /\ pc = "my:fan"
  /\ \E i \in { j \in 1..Len(fan) : fan[j] = Pending },
        r \in Replies(BlockchainProperties, OffchainFailures) :
       LET settled == [fan EXCEPT ![i] = EnrichedEntry(db.v[i], IF r.ok THEN r.data ELSE Null)]
       IN /\ fan' = settled
          /\ calls' = Settled(calls, 1 + i, r)
          /\ IF ~r.ok
             THEN Fail(r.err)
             ELSE IF \A j \in 1..Len(settled) : settled[j] # Pending
             THEN json(Arr(settled))
             ELSE Await("my:fan")
  /\ UNCHANGED <<authBuild, aside, req, user, handlerRan, db>>

\* one enrichment settles; when it is the last one, Promise.all resolves
PropertiesMy_Enrich ==
  /\ pc = "my:fan"
  /\ \E i \in { j \in 1..Len(fan) : fan[j] = Pending },
        r \in Replies(BlockchainProperties, OffchainFailures) :
       LET entry == IF r.ok THEN EnrichedEntry(db.v[i], r.data) ELSE DbOnlyEntry(db.v[i])
           settled == [fan EXCEPT ![i] = entry]
       IN /\ fan' = settled
          /\ calls' = Settled(calls, 1 + i, r)
          /\ IF \A j \in 1..Len(settled) : settled[j] # Pending
             THEN json(Arr(settled))
             ELSE Await("my:fan")
  /\ UNCHANGED <<authBuild, aside, req, user, handlerRan, db>>

(***************************************************************************)
(* GET /properties/:matriculaId/full (routes/property.routes).             *)
(***************************************************************************)
Now == Str("<new Date().toISOString()>")

PropertyFullDTO(dbData, blockchainData, matriculaId) ==
  Obj([dbData |->
         Obj([matriculaId |-> Get(dbData, "matriculaId"),
              folha |-> Get(dbData, "folha"),
              comarca |-> Get(dbData, "comarca"),
              endereco |-> Get(dbData, "endereco"),
              metragem |-> Get(dbData, "metragem"),
              proprietario |-> Get(dbData, "proprietario"),
              tipo |-> Get(dbData, "tipo"),
              isRegular |-> Get(dbData, "isRegular"),
              matriculaOrigem |-> Get(dbData, "matriculaOrigem"),
              registrationDate |-> Or(Get(dbData, "createdAt"), Now)]),
       blockchainData |->
         Obj([ownerWallet |-> Or(Get(blockchainData, "ownerWallet"), Get(dbData, "proprietario")),
              tokenId |-> Or(Get(blockchainData, "tokenId"), Str(matriculaId)),
              txHash |-> Get(blockchainData, "txHash"),
              status |-> Or(Get(blockchainData, "status"), Str("pending")),
              isFrozen |-> Or(Get(blockchainData, "isFrozen"), Bool(FALSE))])])

\* as PropertyFull_Start, with both lookups started together
PropertyFull_Start_parallel ==
  /\ pc = "handler"
  /\ req.route = "GET /properties/:matriculaId/full"
  /\ handlerRan' = TRUE
  /\ calls' = <<Call("orchestrator", "getPropertyMetadata", req.params.matriculaId),
                Call("offchain", "getPropertyFromBlockchain", req.params.matriculaId)>>
  /\ Await("full:db")
  /\ UNCHANGED <<authBuild, aside, req, user, db, fan>>

PropertyFull_Start ==
  /\ pc = "handler"
  /\ req.route = "GET /properties/:matriculaId/full"
  /\ handlerRan' = TRUE
  /\ calls' = Append(calls, Call("orchestrator", "getPropertyMetadata", req.params.matriculaId))
  /\ Await("full:db")
  /\ UNCHANGED <<authBuild, aside, req, user, db, fan>>

PropertyFull_Metadata ==
  /\ pc = "full:db"
  /\ \E r \in Replies(DbProperties, OrchestratorFailures) :
       IF ~r.ok
       THEN /\ calls' = Settled(calls, 1, r)
            /\ Fail(r.err)
            /\ UNCHANGED db
       ELSE /\ calls' = Append(Settled(calls, 1, r),
                               Call("offchain", "getPropertyFromBlockchain", req.params.matriculaId))
            /\ db' = r.data
            /\ Await("full:bc")
  /\ UNCHANGED <<authBuild, aside, req, user, handlerRan, fan>>

\* as PropertyFull_Blockchain, with the Orchestrator record kept in a variable of the
\* module: the response is built from the record of whichever request fetched one
PropertyFull_Blockchain_sharedRecord ==
  /\ pc = "full:bc"
  /\ \E r \in Replies(BlockchainProperties, OffchainFailures) :
       /\ calls' = Settled(calls, 2, r)
       /\ IF ~r.ok
          THEN Fail(r.err)
          ELSE json(PropertyFullDTO(IF parked.db # None THEN parked.db ELSE db,
                                    r.data, req.params.matriculaId))
  /\ UNCHANGED <<authBuild, aside, req, user, handlerRan, db, fan>>

PropertyFull_Blockchain ==
  /\ pc = "full:bc"
  /\ \E r \in Replies(BlockchainProperties, OffchainFailures) :
       /\ calls' = Settled(calls, 2, r)
       /\ IF ~r.ok
          THEN Fail(r.err)
          ELSE json(PropertyFullDTO(db, r.data, req.params.matriculaId))
  /\ UNCHANGED <<authBuild, aside, req, user, handlerRan, db, fan>>

(***************************************************************************)
(* GET /transfers/:transferId/status (routes/transfer.routes).             *)
(***************************************************************************)
\* as TransferStatusDTO, with the Orchestrator's status and approvals taking precedence
TransferStatusDTO_dbFirst(dbTransfer, blockchainTransfer, transferId) ==
  Obj([transferId |-> Or(Get(dbTransfer, "transferId"), Str(transferId)),
       matriculaId |-> Get(dbTransfer, "matriculaId"),
       seller |-> Get(dbTransfer, "seller"),
       buyer |-> Get(dbTransfer, "buyer"),
       status |-> Or(Get(dbTransfer, "status"), OptGet(blockchainTransfer, "status")),
       approvals |-> Or(Or(Get(dbTransfer, "approvals"), OptGet(blockchainTransfer, "approvals")),
                        Arr(<<>>)),
       buyerAccepted |-> Or(OptGet(blockchainTransfer, "buyerAccepted"), Bool(FALSE)),
       createdAt |-> Get(dbTransfer, "createdAt")])

TransferStatusDTO(dbTransfer, blockchainTransfer, transferId) ==
  Obj([transferId |-> Or(Get(dbTransfer, "transferId"), Str(transferId)),
       matriculaId |-> Get(dbTransfer, "matriculaId"),
       seller |-> Get(dbTransfer, "seller"),
       buyer |-> Get(dbTransfer, "buyer"),
       status |-> Or(OptGet(blockchainTransfer, "status"), Get(dbTransfer, "status")),
       approvals |-> Or(Or(OptGet(blockchainTransfer, "approvals"), Get(dbTransfer, "approvals")),
                        Arr(<<>>)),
       buyerAccepted |-> Or(OptGet(blockchainTransfer, "buyerAccepted"), Bool(FALSE)),
       createdAt |-> Get(dbTransfer, "createdAt")])

TransferLookup(transferId) == Call("offchain", "getTransferFromBlockchain", transferId)

TransferStatus_Start ==
  /\ pc = "handler"
  /\ req.route = "GET /transfers/:transferId/status"
  /\ handlerRan' = TRUE
  /\ calls' = Append(calls, Call("orchestrator", "getTransferStatus", req.params.transferId))
  /\ Await("status:db")
  /\ UNCHANGED <<authBuild, aside, req, user, db, fan>>

\* the Orchestrator lookup settles: on failure the outer catch starts the fallback lookup
TransferStatus_Db ==
  /\ pc = "status:db"
  /\ \E r \in Replies(DbTransfers, OrchestratorFailures) :
       /\ calls' = Append(Settled(calls, 1, r), TransferLookup(req.params.transferId))
       /\ IF r.ok
          THEN /\ db' = r.data
               /\ Await("status:bc")
          ELSE /\ db' = db
               /\ Await("status:fallback")
  /\ UNCHANGED <<authBuild, aside, req, user, handlerRan, fan>>

\* the inner Offchain lookup settles; a failure leaves blockchainTransfer null.  Building
\* the DTO from an empty Orchestrator body throws inside the outer try, whose catch then
\* starts the fallback lookup
TransferStatus_Blockchain ==
  /\ pc = "status:bc"
  /\ \E r \in Replies(BlockchainTransfers, OffchainFailures) :
       LET blockchainTransfer == IF r.ok THEN r.data ELSE Null IN
       IF db = Null
       THEN /\ calls' = Append(Settled(calls, 2, r), TransferLookup(req.params.transferId))
            /\ Await("status:fallback")
       ELSE /\ calls' = Settled(calls, 2, r)
            /\ json(TransferStatusDTO(db, blockchainTransfer, req.params.transferId))
  /\ UNCHANGED <<authBuild, aside, req, user, handlerRan, db, fan>>

\* as TransferStatus_Fallback, rethrowing the error that started the fallback
TransferStatus_Fallback_rethrowsFirst ==
  /\ pc = "status:fallback"
  /\ \E r \in Replies(BlockchainTransfers, OffchainFailures) :
       /\ calls' = Settled(calls, Len(calls), r)
       /\ IF r.ok THEN json(r.data)
          ELSE IF Failed(calls[1]) THEN Fail(calls[1].reply.err)
          ELSE Fail(r.err)
  /\ UNCHANGED <<authBuild, aside, req, user, handlerRan, db, fan>>

TransferStatus_Fallback ==
  /\ pc = "status:fallback"
  /\ \E r \in Replies(BlockchainTransfers, OffchainFailures) :
       /\ calls' = Settled(calls, Len(calls), r)
       /\ IF r.ok THEN json(r.data) ELSE Fail(r.err)
  /\ UNCHANGED <<authBuild, aside, req, user, handlerRan, db, fan>>

(***************************************************************************)
(* Local validation helpers.                                               *)
(***************************************************************************)
HexChars ==
  {"0", "1", "2", "3", "4", "5", "6", "7", "8", "9",
   "a", "b", "c", "d", "e", "f", "A", "B", "C", "D", "E", "F"}

\* /^0x[a-fA-F0-9]{40}$/.test(text)
walletRegexTest(text) ==
  /\ Len(text) = 42
  /\ text[1] = "0"
  /\ text[2] = "x"
  /\ \A i \in 3..42 : text[i] \in HexChars

\* requiredFields.filter((field) => !propertyData[field])
RECURSIVE MissingFrom(_, _, _)
MissingFrom(body, fields, i) ==
  IF i > Len(fields) THEN <<>>
  ELSE (IF Falsy(Get(body, fields[i])) THEN <<fields[i]>> ELSE <<>>)
       \o MissingFrom(body, fields, i + 1)

MissingFields(body, fields) == MissingFrom(body, fields, 1)

RequiredMessages(missingFields) ==
  Arr([i \in 1..Len(missingFields) |-> Str(missingFields[i] \o " is required")])

WalletInputs ==
  { WalletA, Wallet("B"),
    Str(<<"0", "x">> \o Rep("a", 39)),
    Str(<<"0", "x">> \o Rep("a", 41)),
    Str(<<"0", "x">> \o Rep("g", 40)),
    Str(<<"0", "X">> \o Rep("a", 40)),
    Str(Rep("a", 42)),
    Str(<<>>),
    Undef }

\* the credential the handlers take from the header: authorization.split(' ')[1]
BearerToken(parts) == IF Len(parts) >= 2 THEN parts[2] ELSE "undefined"

CallWith(svc, op, body, token) ==
  [svc |-> svc, op |-> op, body |-> body, token |-> token, reply |-> Pending]

(***************************************************************************)
(* PUT /auth/wallet (routes/auth.routes).                                  *)
(***************************************************************************)
WalletUpdated == { Obj([message |-> Str("Wallet updated")]) }

AuthWallet_Start ==
  /\ pc = "handler"
  /\ req.route = "PUT /auth/wallet"
  /\ handlerRan' = TRUE
  /\ LET walletAddress == Get(req.body, "walletAddress") IN
       IF user = None
       THEN /\ Fail(ReadOfUndefinedUser)
            /\ UNCHANGED calls
       ELSE IF Falsy(walletAddress)
       THEN /\ Send(400, Obj([message |-> Str("Wallet address is required")]))
            /\ UNCHANGED calls
       ELSE IF ~walletRegexTest(walletAddress.v)
       THEN /\ Send(400, Obj([message |-> Str("Invalid wallet address format")]))
            /\ UNCHANGED calls
       ELSE /\ calls' = Append(calls, CallWith("orchestrator", "updateWallet",
                                               Obj([walletAddress |-> walletAddress]), user.userId))
            /\ Await("wallet:put")
  /\ UNCHANGED <<authBuild, aside, req, user, db, fan>>

AuthWallet_Reply ==
  /\ pc = "wallet:put"
  /\ \E r \in Replies(WalletUpdated, OrchestratorFailures) :
       /\ calls' = Settled(calls, 1, r)
       /\ IF r.ok THEN json(r.data) ELSE Fail(r.err)
  /\ UNCHANGED <<authBuild, aside, req, user, handlerRan, db, fan>>

(***************************************************************************)
(* POST /auth/login (routes/auth.routes).                                  *)
(***************************************************************************)
LoginBodies ==
  { Obj([email |-> e, password |-> p]) :
      e \in {Str("a@b.com"), Str(""), Undef}, p \in {Str("x"), Undef} }

OrchestratorLoginResponses ==
  { Obj([token |-> Str("t"), id |-> Num(1), name |-> Str("A"), email |-> Str("a@b.com"),
         cpf |-> Null, walletAddress |-> Null, role |-> Str("USER"), active |-> Bool(TRUE),
         createdAt |-> Str("2024-01-01"), message |-> Str("Login successful")]),
    Obj([token |-> Str("t2"), id |-> Num(2), name |-> Str("B"), email |-> Str("b@c.org"),
         cpf |-> Str("12345678901"), walletAddress |-> Str("0xA1"), role |-> Str("ADMIN"),
         active |-> Bool(FALSE), createdAt |-> Str("2024-02-02"),
         message |-> Str("Login successful")]) }

\* as AuthResponse, relaying the whole answer of the Orchestrator next to the user object
AuthResponse_relayAll(authResponse) ==
  Obj([f \in DOMAIN authResponse.v \cup {"user"} |->
         IF f = "user"
         THEN Obj([g \in {"id", "name", "email", "cpf", "walletAddress", "role", "active",
                          "createdAt"} |-> Get(authResponse, g)])
         ELSE Get(authResponse, f)])

AuthResponse(authResponse) ==
  Obj([token |-> Get(authResponse, "token"),
       user |-> Obj([id |-> Get(authResponse, "id"),
                     name |-> Get(authResponse, "name"),
                     email |-> Get(authResponse, "email"),
                     cpf |-> Get(authResponse, "cpf"),
                     walletAddress |-> Get(authResponse, "walletAddress"),
                     role |-> Get(authResponse, "role"),
                     active |-> Get(authResponse, "active"),
                     createdAt |-> Get(authResponse, "createdAt")])])

AuthLogin_Start ==
  /\ pc = "handler"
  /\ req.route = "POST /auth/login"
  /\ handlerRan' = TRUE
  /\ IF Falsy(Get(req.body, "email")) \/ Falsy(Get(req.body, "password"))
     THEN /\ Send(400, Obj([message |-> Str("Email and password are required")]))
          /\ UNCHANGED calls
     ELSE /\ calls' = Append(calls, CallWith("orchestrator", "login", req.body, "undefined"))
          /\ Await("login:post")
  /\ UNCHANGED <<authBuild, aside, req, user, db, fan>>

AuthLogin_Reply ==
  /\ pc = "login:post"
  /\ \E r \in Replies(OrchestratorLoginResponses, OrchestratorFailures) :
       /\ calls' = Settled(calls, 1, r)
       /\ IF r.ok THEN json(AuthResponse(r.data)) ELSE Fail(r.err)
  /\ UNCHANGED <<authBuild, aside, req, user, handlerRan, db, fan>>

(***************************************************************************)
(* POST /auth/register (routes/auth.routes).                               *)
(***************************************************************************)
Whitespace == {" "}
Digits == {"0", "1", "2", "3", "4", "5", "6", "7", "8", "9"}

\* /^[^\s@]+@[^\s@]+\.[^\s@]+$/.test(text)
emailRegexTest(text) ==
  LET ats == { i \in 1..Len(text) : text[i] = "@" } IN
    /\ \A i \in 1..Len(text) : text[i] \notin Whitespace
    /\ Cardinality(ats) = 1
    /\ \E i \in ats : i >= 2 /\ \E j \in (i + 2)..(Len(text) - 1) : text[j] = "."

\* text.replace(/\D/g, '')
RECURSIVE StripNonDigits(_, _)
StripNonDigits(text, i) ==
  IF i > Len(text) THEN <<>>
  ELSE (IF text[i] \in Digits THEN <<text[i]>> ELSE <<>>) \o StripNonDigits(text, i + 1)

\* /^\d{11}$/.test(text)
cpfRegexTest(text) == Len(text) = 11 /\ \A i \in 1..Len(text) : text[i] \in Digits

registerRequiredFields == <<"name", "email", "cpf", "password">>

EmailInputs ==
  { Str(<<"a", "@", "b", ".", "c">>),
    Str(<<"a", "@", "b">>),
    Str(<<"a", "@", "@", "b", ".", "c">>),
    Str(<<"a", " ", "x", "@", "b", ".", "c">>),
    Str(<<"@", "b", ".", "c">>),
    Str(<<"a", "@", "b", ".">>),
    Undef }

CpfInputs ==
  { Str(<<"1", "2", "3", ".", "4", "5", "6", ".", "7", "8", "9", "-", "0", "1">>),
    Str(Rep("1", 11)),
    Str(Rep("1", 10)),
    Str(Rep("1", 12)),
    Num(123),
    Undef }

RegisterWallets ==
  { Undef, Str(<<>>), WalletA, Str(<<"0", "x">> \o Rep("a", 39)), Str(Rep("a", 42)) }

RegisterBodies ==
  { Obj([name |-> n, email |-> e, cpf |-> c, password |-> Str("pw"), walletAddress |-> w]) :
      n \in {Str("Ana"), Str("")}, e \in EmailInputs, c \in CpfInputs, w \in RegisterWallets }

UserRegistered == { Obj([message |-> Str("User registered"), userId |-> Str("u9")]) }

AuthRegister_Start ==
  /\ pc = "handler"
  /\ req.route = "POST /auth/register"
  /\ handlerRan' = TRUE
  /\ LET userData == req.body
         missingFields == MissingFields(userData, registerRequiredFields)
         cpf == Get(userData, "cpf")
         walletAddress == Get(userData, "walletAddress")
     IN IF Len(missingFields) > 0
        THEN /\ Send(400, Obj([message |-> Str("Missing required fields"),
                               errors |-> RequiredMessages(missingFields)]))
             /\ UNCHANGED calls
        ELSE IF ~emailRegexTest(Get(userData, "email").v)
        THEN /\ Send(400, Obj([message |-> Str("Invalid email format")]))
             /\ UNCHANGED calls
        ELSE IF cpf.t # "string"
        THEN /\ Fail(TypeError("userData.cpf.replace is not a function"))
             /\ UNCHANGED calls
        ELSE IF ~cpfRegexTest(StripNonDigits(cpf.v, 1))
        THEN /\ Send(400, Obj([message |-> Str("Invalid CPF format. Must be 11 digits")]))
             /\ UNCHANGED calls
        ELSE IF Truthy(walletAddress) /\ ~walletRegexTest(walletAddress.v)
        THEN /\ Send(400, Obj([message |-> Str("Invalid wallet address format")]))
             /\ UNCHANGED calls
        ELSE /\ calls' = Append(calls, CallWith("orchestrator", "register", userData, "undefined"))
             /\ Await("register:post")
  /\ UNCHANGED <<authBuild, aside, req, user, db, fan>>

AuthRegister_Reply ==
  /\ pc = "register:post"
  /\ \E r \in Replies(UserRegistered, OrchestratorFailures) :
       /\ calls' = Settled(calls, 1, r)
       /\ IF r.ok THEN Send(201, r.data) ELSE Fail(r.err)
  /\ UNCHANGED <<authBuild, aside, req, user, handlerRan, db, fan>>

(***************************************************************************)
(* GET /properties/owner/:walletAddress (routes/property.routes).          *)
(***************************************************************************)
OwnerParams == { w.v : w \in { x \in WalletInputs : x.t = "string" /\ Len(x.v) > 0 } }

OwnerProperties == { Arr(<<>>), Arr(<<Obj([tokenId |-> Str("77"), ownerWallet |-> WalletA])>>) }

PropertiesByOwner_Start ==
  /\ pc = "handler"
  /\ req.route = "GET /properties/owner/:walletAddress"
  /\ handlerRan' = TRUE
  /\ LET walletAddress == req.params.walletAddress IN
       IF ~walletRegexTest(walletAddress)
       THEN /\ Send(400, Obj([message |-> Str("Invalid wallet address format")]))
            /\ UNCHANGED calls
       ELSE /\ calls' = Append(calls, Call("offchain", "getPropertiesByOwner", walletAddress))
            /\ Await("owner:get")
  /\ UNCHANGED <<authBuild, aside, req, user, db, fan>>

PropertiesByOwner_Reply ==
  /\ pc = "owner:get"
  /\ \E r \in Replies(OwnerProperties, OffchainFailures) :
       /\ calls' = Settled(calls, 1, r)
       /\ IF r.ok THEN json(r.data) ELSE Fail(r.err)
  /\ UNCHANGED <<authBuild, aside, req, user, handlerRan, db, fan>>

(***************************************************************************)
(* POST /properties/register (routes/property.routes).                     *)
(***************************************************************************)
requiredFields ==
  <<"matriculaId", "folha", "comarca", "endereco", "metragem", "proprietario", "tipo">>

PropertyBody(folha, metragem) ==
  Obj([matriculaId |-> Num(1), folha |-> folha, comarca |-> Str("Recife"),
       endereco |-> Str("Rua A"), metragem |-> metragem, proprietario |-> WalletA,
       tipo |-> Str("URBANO")])

PropertyBodies ==
  { PropertyBody(f, m) : f \in {Num(12), Num(0), Undef}, m \in {Num(80), Num(0)} }
  \cup { Obj([matriculaId |-> Num(1)]) }

PropertyRegistered == { Obj([status |-> Str("pending"), jobId |-> Str("job-1")]) }

PropertyRegister_Start ==
  /\ pc = "handler"
  /\ req.route = "POST /properties/register"
  /\ handlerRan' = TRUE
  /\ LET missingFields == MissingFields(req.body, requiredFields) IN
       IF Len(missingFields) > 0
       THEN /\ Send(400, Obj([message |-> Str("Missing required fields"),
                              errors |-> RequiredMessages(missingFields)]))
            /\ UNCHANGED calls
       ELSE /\ calls' = Append(calls, CallWith("orchestrator", "registerProperty", req.body,
                                               BearerToken(req.header)))
            /\ Await("register:post")
  /\ UNCHANGED <<authBuild, aside, req, user, db, fan>>

PropertyRegister_Reply ==
  /\ pc = "register:post"
  /\ \E r \in Replies(PropertyRegistered, OrchestratorFailures) :
       /\ calls' = Settled(calls, 1, r)
       /\ IF r.ok THEN Send(201, r.data) ELSE Fail(r.err)
  /\ UNCHANGED <<authBuild, aside, req, user, handlerRan, db, fan>>

(***************************************************************************)
(* POST /transfers/approve, /accept, /execute (routes/transfer.routes).    *)
(***************************************************************************)
TransferActions ==
  [r \in {"POST /transfers/approve", "POST /transfers/accept", "POST /transfers/execute"} |->
     CASE r = "POST /transfers/approve" -> "approveTransfer"
       [] r = "POST /transfers/accept" -> "acceptTransfer"
       [] r = "POST /transfers/execute" -> "executeTransfer"]

TransferActionBodies == { Obj([transferId |-> Str("7")]) }
TransferActionResults == { Obj([success |-> Bool(TRUE), txHash |-> Str("0xbeef")]) }

TransferAction_Start ==
  /\ pc = "handler"
  /\ req.route \in DOMAIN TransferActions
  /\ handlerRan' = TRUE
  /\ calls' = Append(calls, CallWith("offchain", TransferActions[req.route], req.body, "undefined"))
  /\ Await("action:post")
  /\ UNCHANGED <<authBuild, aside, req, user, db, fan>>

TransferAction_Reply ==
  /\ pc = "action:post"
  /\ \E r \in Replies(TransferActionResults, OffchainFailures) :
       /\ calls' = Settled(calls, 1, r)
       /\ IF r.ok THEN json(r.data) ELSE Fail(r.err)
  /\ UNCHANGED <<authBuild, aside, req, user, handlerRan, db, fan>>

(***************************************************************************)
(* GET /transfers/my and GET /transfers/pending (routes/transfer.routes).  *)
(***************************************************************************)
\* value.toString() of a number or a string
JsToString(x) == IF x.t = "number" THEN ToString(x.v) ELSE x.v

Transfer(id, matriculaId) ==
  Obj([transferId |-> Str(id), matriculaId |-> matriculaId, status |-> Str("PENDING")])

TransferLists ==
  { <<>>,
    <<Transfer("t1", Num(1)), Transfer("t2", Num(2))>>,
    <<Transfer("t3", Str("2")), Transfer("t4", Undef), Transfer("t5", Num(1))>> }

\* the body of a 200 answer of the Orchestrator: a list, or null
UserPropertyBodies == { Arr(l) : l \in PropertyLists } \cup {Null}
TransferBodies == { Arr(l) : l \in TransferLists } \cup {Null}

\* as FilterTransfers, comparing the transfer's matriculaId as it is, not as a string
RECURSIVE FilterTransfers_noToString(_, _, _)
FilterTransfers_noToString(allTransfers, userMatriculaIds, i) ==
  IF i > Len(allTransfers) THEN <<>>
  ELSE LET m == OptGet(allTransfers[i], "matriculaId")
           kept == m.t = "string" /\ m.v \in userMatriculaIds
       IN (IF kept THEN <<allTransfers[i]>> ELSE <<>>)
          \o FilterTransfers_noToString(allTransfers, userMatriculaIds, i + 1)

\* allTransfers.filter(transfer => userMatriculaIds.includes(transfer.matriculaId?.toString()))
RECURSIVE FilterTransfers(_, _, _)
FilterTransfers(allTransfers, userMatriculaIds, i) ==
  IF i > Len(allTransfers) THEN <<>>
  ELSE LET m == OptGet(allTransfers[i], "matriculaId")
           kept == m.t \in {"number", "string"} /\ JsToString(m) \in userMatriculaIds
       IN (IF kept THEN <<allTransfers[i]>> ELSE <<>>)
          \o FilterTransfers(allTransfers, userMatriculaIds, i + 1)

UserMatriculaIds(userProperties) ==
  { JsToString(Get(userProperties[i], "matriculaId")) : i \in 1..Len(userProperties) }

TransfersMy_Start ==
  /\ pc = "handler"
  /\ req.route = "GET /transfers/my"
  /\ handlerRan' = TRUE
  /\ IF user = None
     THEN /\ Fail(ReadOfUndefinedUser)
          /\ UNCHANGED calls
     ELSE /\ calls' = Append(calls, Call("orchestrator", "getUserProperties", user.userId))
          /\ Await("tmy:props")
  /\ UNCHANGED <<authBuild, aside, req, user, db, fan>>

\* as TransfersMy_Properties, without the try/catch: a failed fetch rejects the handler
TransfersMy_Properties_rethrows ==
  /\ pc = "tmy:props"
  /\ \E r \in Replies(UserPropertyBodies, OrchestratorFailures) :
       IF r.ok
       THEN /\ calls' = Append(Settled(calls, 1, r), Call("orchestrator", "getAllTransfers", ""))
            /\ db' = r.data
            /\ Await("tmy:transfers")
       ELSE /\ calls' = Settled(calls, 1, r)
            /\ db' = db
            /\ Fail(r.err)
  /\ UNCHANGED <<authBuild, aside, req, user, handlerRan, fan>>

TransfersMy_Properties ==
  /\ pc = "tmy:props"
  /\ \E r \in Replies(UserPropertyBodies, OrchestratorFailures) :
       IF r.ok
       THEN /\ calls' = Append(Settled(calls, 1, r), Call("orchestrator", "getAllTransfers", ""))
            /\ db' = r.data
            /\ Await("tmy:transfers")
       ELSE /\ calls' = Settled(calls, 1, r)
            /\ db' = db
            /\ json(Arr(<<>>))
  /\ UNCHANGED <<authBuild, aside, req, user, handlerRan, fan>>

TransfersMy_Transfers ==
  /\ pc = "tmy:transfers"
  /\ \E r \in Replies(TransferBodies, OrchestratorFailures) :
       /\ calls' = Settled(calls, 2, r)
       /\ IF r.ok /\ db.t = "array" /\ r.data.t = "array"
          THEN json(Arr(FilterTransfers(r.data.v, UserMatriculaIds(db.v), 1)))
          ELSE \* a rejected fetch, or .map / .filter of null: the catch answers
               json(Arr(<<>>))
  /\ UNCHANGED <<authBuild, aside, req, user, handlerRan, db, fan>>

TransfersPending ==
  /\ pc = "handler"
  /\ req.route = "GET /transfers/pending"
  /\ handlerRan' = TRUE
  /\ IF user = None
     THEN Fail(ReadOfUndefinedUser)
     ELSE json(Obj([message |-> Str("Get pending transfers - not yet implemented"),
                    userId |-> Str(user.userId),
                    pending |-> Arr(<<>>)]))
  /\ UNCHANGED <<authBuild, aside, req, user, calls, db, fan>>

(***************************************************************************)
(* The in-memory cache (utils/aggregation).  The Map is held as a function *)
(* over the keys in use; None stands for a key the Map does not hold.      *)
(***************************************************************************)
MaxClock == 3
MaxAge == 2
DefaultMaxAge == 60000

CacheKeys == { <<"p", "1">>, <<"t", "1">> }
CacheData == { Str("v1"), Str("v2") }
MaxAges == (0..MaxAge) \cup {DefaultMaxAge}

\* the argument of clearCache: omitted, or a text
Patterns ==
  {Undef} \cup { Str(p) : p \in {<<>>, <<"p">>, <<"1">>, <<"t", "1">>, <<"1", "p">>, <<"x">>} }

EmptyCache == [k \in CacheKeys |-> None]

\* getCached(key, maxAge) at time now: the value returned and the Map it leaves
getCached_expiresAtMaxAge(map, key, maxAge, now) ==
  LET cached == map[key] IN
    IF cached = None THEN [value |-> Null, map |-> map]
    ELSE IF now - cached.timestamp >= maxAge
    THEN [value |-> Null, map |-> [map EXCEPT ![key] = None]]
    ELSE [value |-> cached.data, map |-> map]

getCached(map, key, maxAge, now) ==
  LET cached == map[key] IN
    IF cached = None THEN [value |-> Null, map |-> map]
    ELSE IF now - cached.timestamp > maxAge
    THEN [value |-> Null, map |-> [map EXCEPT ![key] = None]]
    ELSE [value |-> cached.data, map |-> map]

setCache(map, key, data, now) ==
  [map EXCEPT ![key] = [data |-> data, timestamp |-> now]]

\* key.includes(pattern)
includes(key, pattern) ==
  \E i \in 0..(Len(key) - Len(pattern)) : SubSeq(key, i + 1, i + Len(pattern)) = pattern

\* as clearCache, removing the keys that start with the pattern
clearCache_prefix(map, pattern) ==
  IF Falsy(pattern)
  THEN [k \in DOMAIN map |-> None]
  ELSE [k \in DOMAIN map |->
          IF Len(pattern.v) <= Len(k) /\ SubSeq(k, 1, Len(pattern.v)) = pattern.v
          THEN None ELSE map[k]]

clearCache(map, pattern) ==
  IF Falsy(pattern)
  THEN [k \in DOMAIN map |-> None]
  ELSE [k \in DOMAIN map |-> IF includes(k, pattern.v) THEN None ELSE map[k]]

\* the history of a key: its latest setCache, and whether a read has found it expired since
Write(data, now) == [data |-> data, timestamp |-> now, expired |-> FALSE]

GetCached ==
  \E key \in CacheKeys, maxAge \in MaxAges :
    LET r == getCached(cache, key, maxAge, clock) IN
      /\ cache' = r.map
      /\ cacheOp' = [op |-> "getCached", key |-> key, arg |-> Num(maxAge), at |-> clock,
                     result |-> r.value]
      /\ written' = IF written[key] # None /\ clock - written[key].timestamp > maxAge
                    THEN [written EXCEPT ![key].expired = TRUE]
                    ELSE written
      /\ UNCHANGED <<authBuild, req, pc, user, handlerRan, calls, db, fan, thrown, resp, sent,
                     handled, nexts, clock, parked>>

SetCache ==
  \E key \in CacheKeys, data \in CacheData :
    /\ cache' = setCache(cache, key, data, clock)
    /\ cacheOp' = [op |-> "setCache", key |-> key, arg |-> data, at |-> clock,
                   result |-> Undef]
    /\ written' = [written EXCEPT ![key] = Write(data, clock)]
    /\ UNCHANGED <<authBuild, req, pc, user, handlerRan, calls, db, fan, thrown, resp, sent,
                   handled, nexts, clock, parked>>

ClearCache ==
  \E pattern \in Patterns :
    /\ cache' = clearCache(cache, pattern)
    /\ cacheOp' = [op |-> "clearCache", key |-> <<>>, arg |-> pattern, at |-> clock,
                   result |-> Undef]
    /\ written' = [k \in CacheKeys |->
                     IF Falsy(pattern) \/ includes(k, pattern.v) THEN None ELSE written[k]]
    /\ UNCHANGED <<authBuild, req, pc, user, handlerRan, calls, db, fan, thrown, resp, sent,
                   handled, nexts, clock, parked>>

\* Date.now() advances
Tick ==
  /\ clock < MaxClock
  /\ clock' = clock + 1
  /\ UNCHANGED <<authBuild, req, pc, user, handlerRan, calls, db, fan, thrown, resp, sent,
                 handled, nexts, cache, written, cacheOp, parked>>

CacheNext == GetCached \/ SetCache \/ ClearCache \/ Tick

(***************************************************************************)
(* GET /health, /health/ready, /health/live (routes/health.routes).        *)
(***************************************************************************)
HealthReplies == { Obj([status |-> Str("UP")]) }

ProbeStatus(ok) == IF ok THEN Str("healthy") ELSE Str("unhealthy")

HealthBody(orchestratorOk, offchainOk) ==
  LET overallStatus == IF orchestratorOk /\ offchainOk THEN Str("healthy") ELSE Str("degraded")
  IN Obj([status |-> overallStatus,
          services |-> Obj([bff |-> Obj([status |-> Str("healthy"), timestamp |-> Now]),
                            orchestrator |-> Obj([status |-> ProbeStatus(orchestratorOk)]),
                            offchainApi |-> Obj([status |-> ProbeStatus(offchainOk)])])])

Health_Start ==
  /\ pc = "handler"
  /\ req.route = "GET /health"
  /\ handlerRan' = TRUE
  /\ calls' = Append(calls, Call("orchestrator", "healthCheck", ""))
  /\ Await("health:orchestrator")
  /\ UNCHANGED <<authBuild, aside, req, user, db, fan>>

\* as Health_Orchestrator, answering at once when the first probe failed
Health_Orchestrator_stopsAtFailure ==
  /\ pc = "health:orchestrator"
  /\ \E r \in Replies(HealthReplies, OrchestratorFailures) :
       IF r.ok
       THEN /\ calls' = Append(Settled(calls, 1, r), Call("offchain", "healthCheck", ""))
            /\ db' = Bool(r.ok)
            /\ Await("health:offchain")
       ELSE /\ calls' = Settled(calls, 1, r)
            /\ db' = Bool(r.ok)
            /\ Send(503, HealthBody(FALSE, FALSE))
  /\ UNCHANGED <<authBuild, aside, req, user, handlerRan, fan>>

Health_Orchestrator ==
  /\ pc = "health:orchestrator"
  /\ \E r \in Replies(HealthReplies, OrchestratorFailures) :
       /\ calls' = Append(Settled(calls, 1, r), Call("offchain", "healthCheck", ""))
       /\ db' = Bool(r.ok)
  /\ Await("health:offchain")
  /\ UNCHANGED <<authBuild, aside, req, user, handlerRan, fan>>

Health_Offchain ==
  /\ pc = "health:offchain"
  /\ \E r \in Replies(HealthReplies, OffchainFailures) :
       /\ calls' = Settled(calls, 2, r)
       /\ Send(IF db.v /\ r.ok THEN 200 ELSE 503, HealthBody(db.v, r.ok))
  /\ UNCHANGED <<authBuild, aside, req, user, handlerRan, db, fan>>

Health_Probe ==
  /\ pc = "handler"
  /\ req.route \in {"GET /health/ready", "GET /health/live"}
  /\ handlerRan' = TRUE
  /\ Send(200, Obj([status |-> IF req.route = "GET /health/ready" THEN Str("ready") ELSE Str("alive")]))
  /\ UNCHANGED <<authBuild, aside, req, user, calls, db, fan>>

(***************************************************************************)
(* POST /transfers/configure (routes/transfer.routes), with the Offchain   *)
(* client's registerIdentity (services/offchain.service).                  *)
(***************************************************************************)
LowerCase ==
  [c \in HexChars \cup {"x", "X", "g"} |->
     CASE c = "A" -> "a" [] c = "B" -> "b" [] c = "C" -> "c" [] c = "D" -> "d"
       [] c = "E" -> "e" [] c = "F" -> "f" [] c = "X" -> "x" [] OTHER -> c]

\* text.toLowerCase()
toLowerCase(text) == [i \in 1..Len(text) |-> LowerCase[text[i]]]

NaN == [t |-> "NaN"]

\* Number(value) for the identifiers a client can send
Number(x) ==
  IF x.t = "number" THEN x
  ELSE IF x.t = "string" /\ x.v = "1" THEN Num(1)
  ELSE IF x.t = "string" /\ x.v = "2" THEN Num(2)
  ELSE NaN

ConfigureBodies ==
  { Obj([matriculaId |-> m, toWalletAddress |-> w, toCpf |-> c]) :
      m \in {Num(1), Str("2"), Num(9), Undef},
      w \in {WalletB, Str(<<"0", "x">> \o Rep("g", 40)), Undef},
      c \in {Undef, Str("12345678901")} }

AllPropertiesLists ==
  { <<>>,
    <<PropertyDTO(1, WalletA, Bool(TRUE), Str("2024-01-01")),
      PropertyDTO(2, Wallet("B"), Undef, Undef)>>,
    <<PropertyDTO(1, Undef, Bool(TRUE), Str("2024-01-01"))>> }

UserProfiles ==
  { Obj([id |-> Num(1), walletAddress |-> w]) : w \in {WalletA, Wallet("A"), WalletB, Null} }

ApproverLists ==
  { <<>>,
    <<Obj([wallet |-> Str("0xApprover1"), active |-> Bool(TRUE)]),
      Obj([wallet |-> Str("0xApprover2"), active |-> Bool(FALSE)]),
      Obj([wallet |-> Str("0xApprover3"), active |-> Bool(TRUE)])>>,
    <<Obj([wallet |-> Str("0xApprover2"), active |-> Bool(FALSE)])>> }

FallbackApprover == Str("0x627306090abaB3A6e1400e9345bC60c78a8BEf57")

\* what awaiting orchestratorService.getAllProperties(token) settles to
getAllProperties == Replies(AllPropertiesLists, OrchestratorFailures)

\* what awaiting orchestratorService.getUserProfile(token) settles to
getUserProfile == Replies(UserProfiles, OrchestratorFailures)

\* what awaiting offchainService.isIdentityVerified(wallet) settles to
isIdentityVerified == Replies({Bool(TRUE), Bool(FALSE)}, OffchainFailures)

\* allProperties.find((p) => p.matriculaId === Number(matriculaId))
RECURSIVE FindProperty(_, _, _)
FindProperty(allProperties, n, i) ==
  IF i > Len(allProperties) THEN Undef
  ELSE IF n # NaN /\ Get(allProperties[i], "matriculaId") = n THEN allProperties[i]
  ELSE FindProperty(allProperties, n, i + 1)

\* approvers.filter((a) => a.active).map((a) => a.wallet)
RECURSIVE ActiveWallets(_, _)
ActiveWallets(approvers, i) ==
  IF i > Len(approvers) THEN <<>>
  ELSE (IF Truthy(Get(approvers[i], "active")) THEN <<Get(approvers[i], "wallet")>> ELSE <<>>)
       \o ActiveWallets(approvers, i + 1)

\* as ApproverSet, without the substitution for an empty list
ApproverSet_noFallback(r) ==
  IF r.ok THEN ActiveWallets(r.data, 1) ELSE <<FallbackApprover>>

\* the approvers handed to configureTransfer, from the settled getApprovers call
ApproverSet(r) ==
  LET activeApprovers == IF r.ok THEN ActiveWallets(r.data, 1) ELSE <<FallbackApprover>>
  IN IF Len(activeApprovers) = 0 THEN <<FallbackApprover>> ELSE activeApprovers

AlreadyRegistered ==
  [response |-> [status |-> 409, data |-> Obj([message |-> Str("Identidade já registrada")])],
   request |-> TRUE]

\* message.includes('já')
IncludesJa(message) == message = "Identidade já registrada"

\* registerIdentity's catch: it inspects error.response on the error the interceptor threw
registerIdentityCatch(error) ==
  IF /\ "response" \in DOMAIN error
     /\ error.response # NoResponse
     /\ error.response.data.t = "object"
     /\ Get(error.response.data, "message").t = "string"
     /\ IncludesJa(Get(error.response.data, "message").v)
  THEN [ok |-> TRUE, data |-> Obj([success |-> Bool(TRUE), alreadyRegistered |-> Bool(TRUE)])]
  ELSE [ok |-> FALSE, err |-> error]

\* what awaiting offchainService.registerIdentity(wallet) settles to
RegisterIdentityReplies ==
  { [ok |-> TRUE, data |-> Obj([success |-> Bool(TRUE)])] }
  \cup { registerIdentityCatch(OffchainInterceptor(e)) : e \in AxiosErrors \cup {AlreadyRegistered} }

RecipientFailure == AppError("Falha ao validar destinatário. Tente novamente.", 500, Undef)

TransferConfigured == { Obj([success |-> Bool(TRUE), transferId |-> Str("7")]) }

TransferConfigure_Start ==
  /\ pc = "handler"
  /\ req.route = "POST /transfers/configure"
  /\ handlerRan' = TRUE
  /\ IF Falsy(Get(req.body, "matriculaId"))
     THEN /\ Fail(AppError("matriculaId é obrigatório", 400, Undef))
          /\ UNCHANGED calls
     ELSE IF Falsy(Get(req.body, "toWalletAddress")) /\ Falsy(Get(req.body, "toCpf"))
     THEN /\ Fail(AppError("toWalletAddress ou toCpf é obrigatório", 400, Undef))
          /\ UNCHANGED calls
     ELSE /\ calls' = Append(calls, Call("orchestrator", "getAllProperties", BearerToken(req.header)))
          /\ Await("cfg:properties")
  /\ UNCHANGED <<authBuild, aside, req, user, db, fan>>

TransferConfigure_Properties ==
  /\ pc = "cfg:properties"
  /\ \E r \in getAllProperties :
       LET property == IF r.ok
                       THEN FindProperty(r.data, Number(Get(req.body, "matriculaId")), 1)
                       ELSE Undef
       IN IF ~r.ok
          THEN /\ calls' = Settled(calls, 1, r)
               /\ Fail(r.err)
               /\ UNCHANGED db
          ELSE IF Falsy(property)
          THEN /\ calls' = Settled(calls, 1, r)
               /\ Fail(AppError("Propriedade não encontrada", 404, Undef))
               /\ UNCHANGED db
          ELSE /\ calls' = Append(Settled(calls, 1, r),
                                  Call("orchestrator", "getUserProfile", BearerToken(req.header)))
               /\ db' = property
               /\ Await("cfg:user")
  /\ UNCHANGED <<authBuild, aside, req, user, handlerRan, fan>>

\* as OwnsProperty, comparing the wallets as written
OwnsProperty_caseSensitive(profile, property) ==
  LET owner == Get(property, "proprietario") IN
  /\ Truthy(owner)
  /\ Get(profile, "walletAddress").v = owner.v

\* the caller's wallet equals the property's recorded owner, compared in lower case
OwnsProperty(profile, property) ==
  LET owner == Get(property, "proprietario") IN
  /\ Truthy(owner)
  /\ toLowerCase(Get(profile, "walletAddress").v) = toLowerCase(owner.v)

\* as TransferConfigure_User, with the ownership comparison made before the wallet check
TransferConfigure_User_ownershipFirst ==
  /\ pc = "cfg:user"
  /\ \E r \in getUserProfile :
       IF ~r.ok
       THEN /\ calls' = Settled(calls, 2, r)
            /\ Fail(r.err)
       ELSE IF Falsy(Get(r.data, "walletAddress")) \/ ~OwnsProperty(r.data, db)
       THEN /\ calls' = Settled(calls, 2, r)
            /\ Fail(AppError("Você não é o proprietário desta propriedade", 403, Undef))
       ELSE IF Truthy(Get(req.body, "toCpf")) /\ Falsy(Get(req.body, "toWalletAddress"))
       THEN /\ calls' = Settled(calls, 2, r)
            /\ Fail(AppError("Transferência por CPF ainda não implementada. Use wallet address.",
                             400, Undef))
       ELSE /\ calls' = Append(Settled(calls, 2, r),
                               CallWith("offchain", "isIdentityVerified",
                                        Get(req.body, "toWalletAddress"), "undefined"))
            /\ Await("cfg:verified")
  /\ UNCHANGED <<authBuild, aside, req, user, handlerRan, db, fan>>

TransferConfigure_User ==
  /\ pc = "cfg:user"
  /\ \E r \in getUserProfile :
       IF ~r.ok
       THEN /\ calls' = Settled(calls, 2, r)
            /\ Fail(r.err)
       ELSE IF Falsy(Get(r.data, "walletAddress"))
       THEN /\ calls' = Settled(calls, 2, r)
            /\ Fail(AppError("Você precisa conectar sua carteira antes de transferir propriedades",
                             400, Undef))
       ELSE IF ~OwnsProperty(r.data, db)
       THEN /\ calls' = Settled(calls, 2, r)
            /\ Fail(AppError("Você não é o proprietário desta propriedade", 403, Undef))
       ELSE IF Truthy(Get(req.body, "toCpf")) /\ Falsy(Get(req.body, "toWalletAddress"))
       THEN /\ calls' = Settled(calls, 2, r)
            /\ Fail(AppError("Transferência por CPF ainda não implementada. Use wallet address.",
                             400, Undef))
       ELSE /\ calls' = Append(Settled(calls, 2, r),
                               CallWith("offchain", "isIdentityVerified",
                                        Get(req.body, "toWalletAddress"), "undefined"))
            /\ Await("cfg:verified")
  /\ UNCHANGED <<authBuild, aside, req, user, handlerRan, db, fan>>

TransferConfigure_Verified ==
  /\ pc = "cfg:verified"
  /\ \E r \in isIdentityVerified :
       IF ~r.ok
       THEN /\ calls' = Settled(calls, 3, r)
            /\ Fail(RecipientFailure)
       ELSE IF Falsy(r.data)
       THEN /\ calls' = Append(Settled(calls, 3, r),
                               CallWith("offchain", "registerIdentity",
                                        Get(req.body, "toWalletAddress"), "undefined"))
            /\ Await("cfg:register")
       ELSE /\ calls' = Append(Settled(calls, 3, r), Call("offchain", "getApprovers", ""))
            /\ Await("cfg:approvers")
  /\ UNCHANGED <<authBuild, aside, req, user, handlerRan, db, fan>>

\* as TransferConfigure_Registered, going on to the approvers when the registration failed
TransferConfigure_Registered_proceeds ==
  /\ pc = "cfg:register"
  /\ \E r \in RegisterIdentityReplies :
       /\ calls' = Append(Settled(calls, 4, r), Call("offchain", "getApprovers", ""))
       /\ Await("cfg:approvers")
  /\ UNCHANGED <<authBuild, aside, req, user, handlerRan, db, fan>>

TransferConfigure_Registered ==
  /\ pc = "cfg:register"
  /\ \E r \in RegisterIdentityReplies :
       IF ~r.ok
       THEN /\ calls' = Settled(calls, 4, r)
            /\ Fail(RecipientFailure)
       ELSE /\ calls' = Append(Settled(calls, 4, r), Call("offchain", "getApprovers", ""))
            /\ Await("cfg:approvers")
  /\ UNCHANGED <<authBuild, aside, req, user, handlerRan, db, fan>>

TransferConfigure_Approvers ==
  /\ pc = "cfg:approvers"
  /\ \E r \in Replies(ApproverLists, OffchainFailures) :
       calls' = Append(Settled(calls, Len(calls), r),
                       CallWith("offchain", "configureTransfer",
                                Obj([from |-> Get(db, "proprietario"),
                                     to |-> Get(req.body, "toWalletAddress"),
                                     matriculaId |-> Number(Get(req.body, "matriculaId")),
                                     approvers |-> Arr(ApproverSet(r))]),
                                "undefined"))
  /\ Await("cfg:configure")
  /\ UNCHANGED <<authBuild, aside, req, user, handlerRan, db, fan>>

TransferConfigure_Configured ==
  /\ pc = "cfg:configure"
  /\ \E r \in Replies(TransferConfigured, OffchainFailures) :
       /\ calls' = Settled(calls, Len(calls), r)
       /\ IF r.ok THEN json(r.data) ELSE Fail(r.err)
  /\ UNCHANGED <<authBuild, aside, req, user, handlerRan, db, fan>>

(***************************************************************************)
(* The requests a client can send, and their arrival and routing.          *)
(***************************************************************************)
Requests ==
  { Request("GET /properties/my", h, NoParams, Undef) : h \in Headers }
  \cup { Request("GET /properties/:matriculaId/full", Absent, [matriculaId |-> m], Undef) :
         m \in MatriculaIds }
  \cup { Request("GET /transfers/:transferId/status", Absent, [transferId |-> t], Undef) :
         t \in TransferIds }
  \cup { Request("PUT /auth/wallet", h, NoParams, Obj([walletAddress |-> w])) :
         h \in Headers, w \in WalletInputs }
  \cup { Request("POST /auth/login", Absent, NoParams, b) : b \in LoginBodies }
  \cup { Request("POST /auth/register", Absent, NoParams, b) : b \in RegisterBodies }
  \cup { Request("GET /properties/owner/:walletAddress", Absent, [walletAddress |-> w], Undef) :
         w \in OwnerParams }
  \cup { Request("POST /properties/register", h, NoParams, b) :
         h \in Headers, b \in PropertyBodies }
  \cup { Request(r, h, NoParams, b) :
         r \in DOMAIN TransferActions, h \in Headers, b \in TransferActionBodies }
  \cup { Request(r, h, NoParams, Undef) :
         r \in {"GET /transfers/my", "GET /transfers/pending"}, h \in Headers }
  \cup { Request("POST /transfers/configure", h, NoParams, b) :
         h \in Headers, b \in ConfigureBodies }
  \cup { Request(r, Absent, NoParams, Undef) :
         r \in {"GET /health", "GET /health/ready", "GET /health/live"} }

Init ==
  /\ authBuild \in {"verify", "headerOnly"}
  /\ req = None
  /\ pc = "idle"
  /\ user = None
  /\ handlerRan = FALSE
  /\ calls = <<>>
  /\ db = None
  /\ fan = <<>>
  /\ thrown = None
  /\ resp = None
  /\ sent = 0
  /\ handled = 0
  /\ nexts = 0
  /\ cache = EmptyCache
  /\ clock = 0
  /\ written = EmptyCache
  /\ cacheOp = None
  /\ parked = None

\* Express accepts the next request and routes it
Receive ==
  /\ pc = "idle"
  /\ \E r \in Requests :
       /\ req' = r
       /\ pc' = IF r.route \in Guarded THEN "guard" ELSE "handler"
  /\ UNCHANGED <<authBuild, aside, user, handlerRan, calls, db, fan, thrown, resp, sent, handled>>

\* the response is on the wire: the request and everything scoped to it are dropped
Close ==
  /\ pc = "done"
  /\ pc' = "idle"
  /\ req' = None
  /\ user' = None
  /\ handlerRan' = FALSE
  /\ calls' = <<>>
  /\ db' = None
  /\ fan' = <<>>
  /\ thrown' = None
  /\ resp' = None
  /\ sent' = 0
  /\ handled' = 0
  /\ UNCHANGED <<authBuild, aside>>

AuthGuard ==
  /\ pc = "guard"
  /\ LET g == authenticateJWT(req.header) IN
       IF g.ok
       THEN /\ user' = g.user
            /\ pc' = "handler"
            /\ UNCHANGED <<thrown, resp, sent, handled>>
       ELSE /\ Fail(g.err)
            /\ UNCHANGED user
  /\ UNCHANGED <<authBuild, aside, req, handlerRan, calls, db, fan>>

Next ==
  \/ Receive
  \/ Close
  \/ AuthGuard
  \/ PropertiesMy_Start
  \/ PropertiesMy_List
  \/ PropertiesMy_Enrich
  \/ PropertyFull_Start
  \/ PropertyFull_Metadata
  \/ PropertyFull_Blockchain
  \/ TransferStatus_Start
  \/ TransferStatus_Db
  \/ TransferStatus_Blockchain
  \/ TransferStatus_Fallback
  \/ AuthWallet_Start
  \/ AuthWallet_Reply
  \/ AuthLogin_Start
  \/ AuthLogin_Reply
  \/ AuthRegister_Start
  \/ AuthRegister_Reply
  \/ PropertiesByOwner_Start
  \/ PropertiesByOwner_Reply
  \/ PropertyRegister_Start
  \/ PropertyRegister_Reply
  \/ TransferAction_Start
  \/ TransferAction_Reply
  \/ TransfersMy_Start
  \/ TransfersMy_Properties
  \/ TransfersMy_Transfers
  \/ TransfersPending
  \/ TransferConfigure_Start
  \/ TransferConfigure_Properties
  \/ TransferConfigure_User
  \/ TransferConfigure_Verified
  \/ TransferConfigure_Registered
  \/ TransferConfigure_Approvers
  \/ TransferConfigure_Configured
  \/ Health_Start
  \/ Health_Orchestrator
  \/ Health_Offchain
  \/ Health_Probe

Spec == Init /\ [][Next]_vars

\* the cache functions, called in any order as time passes
CacheSpec == Init /\ [][CacheNext]_vars

(***************************************************************************)
(* Two requests in flight.  Node runs one continuation at a time: between  *)
(* two runs of handler code the event loop may turn to the other request.  *)
(* The request it turns away from is parked with everything scoped to it.  *)
(***************************************************************************)
Context ==
  [req |-> req, pc |-> pc, user |-> user, handlerRan |-> handlerRan, calls |-> calls,
   db |-> db, fan |-> fan, thrown |-> thrown, resp |-> resp, sent |-> sent,
   handled |-> handled]

IdleContext ==
  [req |-> None, pc |-> "idle", user |-> None, handlerRan |-> FALSE, calls |-> <<>>,
   db |-> None, fan |-> <<>>, thrown |-> None, resp |-> None, sent |-> 0, handled |-> 0]

ConcRoutes == { "GET /properties/:matriculaId/full", "POST /transfers/configure" }

ConcRequests ==
  { r \in Requests :
      /\ r.route \in ConcRoutes
      /\ r.header \in {Absent, <<"Bearer", "tok.alice">>}
      /\ r.route = "GET /properties/:matriculaId/full" => r.params.matriculaId = "1"
      /\ r.route = "POST /transfers/configure" =>
           r.body = Obj([matriculaId |-> Num(1), toWalletAddress |-> WalletB,
                         toCpf |-> Str("12345678901")]) }

\* what the cache may hold when the requests arrive
ConcCaches == { EmptyCache, setCache(EmptyCache, <<"p", "1">>, Str("v1"), 0) }

ConcInit ==
  /\ authBuild \in {"verify", "headerOnly"}
  /\ req = None
  /\ pc = "idle"
  /\ user = None
  /\ handlerRan = FALSE
  /\ calls = <<>>
  /\ db = None
  /\ fan = <<>>
  /\ thrown = None
  /\ resp = None
  /\ sent = 0
  /\ handled = 0
  /\ nexts = 0
  /\ cache \in ConcCaches
  /\ clock = 0
  /\ written = EmptyCache
  /\ cacheOp = None
  /\ parked = IdleContext

ReceiveConc ==
  /\ pc = "idle"
  /\ \E r \in ConcRequests :
       /\ req' = r
       /\ pc' = IF r.route \in Guarded THEN "guard" ELSE "handler"
  /\ UNCHANGED <<authBuild, aside, user, handlerRan, calls, db, fan, thrown, resp, sent, handled>>

\* the event loop turns to the other request
Switch ==
  /\ parked # Context
  /\ parked' = Context
  /\ req' = parked.req
  /\ pc' = parked.pc
  /\ user' = parked.user
  /\ handlerRan' = parked.handlerRan
  /\ calls' = parked.calls
  /\ db' = parked.db
  /\ fan' = parked.fan
  /\ thrown' = parked.thrown
  /\ resp' = parked.resp
  /\ sent' = parked.sent
  /\ handled' = parked.handled
  /\ UNCHANGED <<authBuild, nexts, cache, clock, written, cacheOp>>

ConcNext ==
  \/ ReceiveConc
  \/ Close
  \/ Switch
  \/ AuthGuard
  \/ PropertyFull_Start
  \/ PropertyFull_Metadata
  \/ PropertyFull_Blockchain
  \/ TransferConfigure_Start
  \/ TransferConfigure_Properties
  \/ TransferConfigure_User
  \/ TransferConfigure_Verified
  \/ TransferConfigure_Registered
  \/ TransferConfigure_Approvers
  \/ TransferConfigure_Configured

ConcSpec == ConcInit /\ [][ConcNext]_vars

(***************************************************************************)
(* optionalAuth is exported and mounted on no route: it is applied here to *)
(* every request the routes can receive.                                   *)
(***************************************************************************)
OptInit ==
  /\ authBuild \in {"verify", "headerOnly"}
  /\ req \in Requests
  /\ pc = "optionalAuth"
  /\ user = None
  /\ handlerRan = FALSE
  /\ calls = <<>>
  /\ db = None
  /\ fan = <<>>
  /\ thrown = None
  /\ resp = None
  /\ sent = 0
  /\ handled = 0
  /\ nexts = 0
  /\ cache = EmptyCache
  /\ clock = 0
  /\ written = EmptyCache
  /\ cacheOp = None
  /\ parked = None

OptionalAuth ==
  /\ pc = "optionalAuth"
  /\ LET o == optionalAuth(req.header) IN
       /\ nexts' = nexts + o.nexts
       /\ user' = o.user
       /\ IF o.threw # None
          THEN Fail(o.threw)
          ELSE /\ pc' = IF o.nexts > 0 THEN "handler" ELSE "hung"
               /\ UNCHANGED <<thrown, resp, sent, handled>>
  /\ UNCHANGED <<authBuild, req, handlerRan, calls, db, fan, cache, clock, written, cacheOp, parked>>

OptSpec == OptInit /\ [][OptionalAuth]_vars

\* The event loop runs every continuation that is ready, and every upstream call settles
\* (each client has a timeout), so a request in flight always takes its next step; nothing
\* obliges a client to send a request.
Progress == pc # "idle" /\ Next

FairSpec == Init /\ [][Next]_vars /\ WF_vars(Progress)

(***************************************************************************)
(* Properties.                                                             *)
(***************************************************************************)
WellFormed(parts) == parts # Absent /\ Len(parts) = 2 /\ parts[1] = "Bearer"

BadCredential(parts) ==
  \/ ~WellFormed(parts)
  \/ ~SignatureValid(parts[2])
  \/ Expired(parts[2])

Answered(status, message) ==
  /\ resp # None
  /\ resp.status = status
  /\ resp.body.t = "object"
  /\ Get(resp.body, "message") = Str(message)

OnRoute(routes) == pc # "idle" /\ req.route \in routes

\* C1: on a guarded route, a request whose Authorization header is absent, is not of the
\* form 'Bearer <credential>', or carries a credential with an invalid signature or past
\* its expiry never has its handler body run and never causes an upstream call.
C1_GuardRejectsBeforeHandler ==
  (OnRoute(Guarded) /\ BadCredential(req.header)) => (~handlerRan /\ Len(calls) = 0)

\* C2: every rejection by the guard is a 401, and each of the four causes (no header, bad
\* format, invalid signature, expired) is answered with its own message.
C2_RejectionPerCause ==
  (OnRoute(Guarded) /\ pc = "done") =>
    /\ (~handlerRan => resp.status = 401)
    /\ (req.header = Absent => Answered(401, "No authorization header provided"))
    /\ (req.header # Absent /\ ~WellFormed(req.header) =>
          Answered(401, "Invalid authorization header format. Expected: Bearer <token>"))
    /\ (WellFormed(req.header) /\ ~SignatureValid(req.header[2]) =>
          Answered(401, "Invalid token"))
    /\ (WellFormed(req.header) /\ SignatureValid(req.header[2]) /\ Expired(req.header[2]) =>
          Answered(401, "Token expired"))

\* C3: whenever the handler of a guarded route runs, req.user holds the claims decoded from
\* the verified credential, and no handler fails on reading userId of an undefined req.user.
C3_HandlerHasIdentity ==
  (OnRoute(Guarded) /\ handlerRan) =>
    /\ user # None
    /\ user = Claims(req.header[2])
    /\ thrown # ReadOfUndefinedUser

\* C4: GET /properties/:matriculaId/full answers 200 with the DB fields and defaulted
\* blockchain fields whenever the Orchestrator lookup succeeded and the Offchain lookup failed.
C4_FullSurvivesOffchainFailure ==
  (OnRoute({"GET /properties/:matriculaId/full"}) /\ pc = "done"
     /\ Len(calls) = 2 /\ Succeeded(calls[1]) /\ Failed(calls[2])) =>
    /\ resp.status = 200
    /\ thrown = None
    /\ Get(Get(resp.body, "dbData"), "matriculaId") = Get(calls[1].reply.data, "matriculaId")
    /\ Get(Get(resp.body, "blockchainData"), "status") = Str("pending")
    /\ Get(Get(resp.body, "blockchainData"), "isFrozen") = Bool(FALSE)

\* C5: GET /transfers/:transferId/status, when the Orchestrator lookup failed: exactly one
\* Offchain lookup for the same transferId follows; if it succeeds the response is 200 with
\* exactly the Offchain record, and if it fails its error is the one the normalizer receives.
C5_FallbackAnswersWithOffchainRecord ==
  (OnRoute({"GET /transfers/:transferId/status"}) /\ pc = "done" /\ Failed(calls[1])) =>
    /\ Len(calls) = 2
    /\ calls[2].svc = "offchain"
    /\ calls[2].op = "getTransferFromBlockchain"
    /\ calls[2].key = req.params.transferId
    /\ (Succeeded(calls[2]) =>
          resp = [status |-> 200, body |-> calls[2].reply.data] /\ thrown = None)
    /\ (Failed(calls[2]) =>
          thrown = calls[2].reply.err /\ resp.status = IF thrown.name = "AppError"
                                                          THEN thrown.statusCode ELSE 500)

C5_Witness ==
  /\ OnRoute({"GET /transfers/:transferId/status"})
  /\ pc = "done"
  /\ Failed(calls[1])
  /\ Succeeded(calls[2])
  /\ resp.status = 200

\* the response of GET /transfers/:transferId/status was merged from an Orchestrator record
Merged ==
  /\ OnRoute({"GET /transfers/:transferId/status"})
  /\ pc = "done"
  /\ Succeeded(calls[1])
  /\ calls[1].reply.data.t = "object"

Reported(record, field) == Truthy(OptGet(record, field))

\* C6 as stated: with a successful Orchestrator lookup, status and approvals are the Offchain
\* record's when the Offchain lookup succeeded and reported them and the Orchestrator's when
\* it failed; transferId, matriculaId, seller, buyer and createdAt always come from the
\* Orchestrator record; buyerAccepted is false when the Offchain lookup failed.
C6_MergePrecedence ==
  Merged =>
    /\ resp.status = 200
    /\ LET dbTransfer == calls[1].reply.data
           offchain == calls[2].reply
           body == resp.body
       IN /\ \A f \in {"status", "approvals"} :
               /\ (offchain.ok /\ Reported(offchain.data, f)) => Get(body, f) = Get(offchain.data, f)
               /\ ~offchain.ok => Get(body, f) = Get(dbTransfer, f)
          /\ \A f \in {"transferId", "matriculaId", "seller", "buyer", "createdAt"} :
               Get(body, f) = Get(dbTransfer, f)
          /\ ~offchain.ok => Get(body, "buyerAccepted") = Bool(FALSE)

\* C6 amended: when the Orchestrator lookup succeeds with a record, status and approvals are
\* the Offchain record's when the Offchain lookup succeeded and reported them; when it failed,
\* status is the Orchestrator's and approvals are the Orchestrator's, or the empty list when
\* it has none; transferId is the Orchestrator record's when it has one and the request's
\* path parameter otherwise; matriculaId, seller, buyer and createdAt come from the
\* Orchestrator record; buyerAccepted is false when the Offchain lookup failed.
C6_MergePrecedenceAmended ==
  Merged =>
    /\ resp.status = 200
    /\ Len(calls) = 2
    /\ LET dbTransfer == calls[1].reply.data
           offchain == calls[2].reply
           body == resp.body
       IN /\ \A f \in {"status", "approvals"} :
               (offchain.ok /\ Reported(offchain.data, f)) => Get(body, f) = Get(offchain.data, f)
          /\ ~offchain.ok => Get(body, "status") = Get(dbTransfer, "status")
          /\ ~offchain.ok =>
               Get(body, "approvals") = IF Reported(dbTransfer, "approvals")
                                        THEN Get(dbTransfer, "approvals") ELSE Arr(<<>>)
          /\ Get(body, "transferId") = IF Reported(dbTransfer, "transferId")
                                       THEN Get(dbTransfer, "transferId")
                                       ELSE Str(req.params.transferId)
          /\ \A f \in {"matriculaId", "seller", "buyer", "createdAt"} :
               Get(body, f) = Get(dbTransfer, f)
          /\ ~offchain.ok => Get(body, "buyerAccepted") = Bool(FALSE)

C6_Witness ==
  /\ Merged
  /\ Succeeded(calls[2])
  /\ Reported(calls[2].reply.data, "status")
  /\ Reported(calls[1].reply.data, "status")
  /\ Get(calls[2].reply.data, "status") # Get(calls[1].reply.data, "status")
  /\ Get(resp.body, "status") = Get(calls[2].reply.data, "status")

TwoSourcePropertyRoutes == {"GET /properties/:matriculaId/full", "GET /properties/my"}

\* C8: in GET /properties/:matriculaId/full and GET /properties/my no Offchain call is
\* issued before the Orchestrator call has succeeded; if the Orchestrator call fails, it is
\* the only call of the request and the request fails with its error.
C8_OrchestratorFirst ==
  OnRoute(TwoSourcePropertyRoutes) =>
    /\ \A i \in 1..Len(calls) :
         calls[i].svc = "offchain" =>
           (i > 1 /\ calls[1].svc = "orchestrator" /\ Succeeded(calls[1]))
    /\ (Len(calls) >= 1 /\ Failed(calls[1])) =>
         /\ Len(calls) = 1
         /\ pc = "done"
         /\ thrown = calls[1].reply.err
         /\ resp.status = IF thrown.name = "AppError" THEN thrown.statusCode ELSE 500

C8_Witness ==
  /\ OnRoute(TwoSourcePropertyRoutes)
  /\ pc = "done"
  /\ Len(calls) = 1
  /\ Failed(calls[1])
  /\ thrown = calls[1].reply.err

\* C9: a failure that is an AppError is answered with its statusCode and the body
\* {message, statusCode, errors} holding its values; any other failure is answered 500 with
\* exactly {message: 'Internal server error', statusCode: 500}, without the error's text.
C9_ErrorEnvelope ==
  (pc = "done" /\ thrown # None) =>
    IF thrown.name = "AppError"
    THEN /\ resp.status = thrown.statusCode
         /\ resp.body = Obj([message |-> Str(thrown.message),
                             statusCode |-> Num(thrown.statusCode),
                             errors |-> thrown.errors])
    ELSE /\ resp.status = 500
         /\ resp.body = Obj([message |-> Str("Internal server error"), statusCode |-> Num(500)])
         /\ Get(resp.body, "message") # Str(thrown.message)

C9_Witness ==
  /\ pc = "done"
  /\ thrown # None
  /\ thrown.name # "AppError"
  /\ Len(calls) >= 1
  /\ Failed(calls[Len(calls)])
  /\ resp.status = 500

\* C10: every response with a 4xx or 5xx status has a body with a string message and an
\* integer statusCode equal to the status of the response.
C10_ErrorResponsesAreEnvelopes ==
  (pc = "done" /\ resp.status >= 400) =>
    /\ resp.body.t = "object"
    /\ Get(resp.body, "message").t = "string"
    /\ Get(resp.body, "statusCode") = Num(resp.status)

ValidatedRoutes ==
  { "POST /auth/login", "POST /auth/register", "PUT /auth/wallet", "POST /properties/register",
    "GET /properties/owner/:walletAddress", "POST /transfers/configure" }

\* the wallet-address value of the request in flight, on the routes that take one
WalletGiven ==
  CASE req.route \in {"POST /auth/register", "PUT /auth/wallet"} -> Get(req.body, "walletAddress")
    [] req.route = "GET /properties/owner/:walletAddress" -> Str(req.params.walletAddress)
    [] req.route = "POST /transfers/configure" -> Get(req.body, "toWalletAddress")
    [] OTHER -> Undef

\* a wallet address was given and is not 0x followed by exactly 40 hex characters
BadWalletGiven == Truthy(WalletGiven) /\ ~walletRegexTest(WalletGiven.v)

\* the request in flight breaks one of the local validation rules of its route
BreaksLocalRule ==
  CASE req.route = "POST /auth/login" ->
         Falsy(Get(req.body, "email")) \/ Falsy(Get(req.body, "password"))
    [] req.route = "POST /auth/register" ->
         \/ \E f \in {"name", "email", "cpf", "password"} : Falsy(Get(req.body, f))
         \/ ~emailRegexTest(Get(req.body, "email").v)
         \/ Get(req.body, "cpf").t # "string"
         \/ Len(StripNonDigits(Get(req.body, "cpf").v, 1)) # 11
         \/ BadWalletGiven
    [] req.route = "PUT /auth/wallet" -> Falsy(WalletGiven) \/ BadWalletGiven
    [] req.route = "POST /properties/register" ->
         \E f \in {"matriculaId", "folha", "comarca", "endereco", "metragem", "proprietario",
                   "tipo"} : Falsy(Get(req.body, f))
    [] req.route = "GET /properties/owner/:walletAddress" -> BadWalletGiven
    [] req.route = "POST /transfers/configure" ->
         \/ Falsy(Get(req.body, "matriculaId"))
         \/ Falsy(Get(req.body, "toWalletAddress")) /\ Falsy(Get(req.body, "toCpf"))
         \/ BadWalletGiven
    [] OTHER -> FALSE

\* C11: on the routes with local validation, a request that reaches the handler and breaks
\* a local validation rule (missing required field, bad email, CPF not of 11 digits once
\* non-digits are stripped, bad wallet address, missing matriculaId or recipient) is
\* answered 400, and no Orchestrator or Offchain call is issued for it.
C11_LocalValidationRejects ==
  (OnRoute(ValidatedRoutes) /\ handlerRan /\ BreaksLocalRule) =>
    /\ Len(calls) = 0
    /\ pc = "done"
    /\ resp.status = 400

\* C12: on every route that takes a wallet address from the client, a value that is not 0x
\* followed by exactly 40 hex characters is answered 400 before any upstream call is issued.
C12_BadWalletRejected ==
  (OnRoute(ValidatedRoutes) /\ handlerRan /\ BadWalletGiven) =>
    /\ Len(calls) = 0
    /\ pc = "done"
    /\ resp.status = 400

Configure == OnRoute({"POST /transfers/configure"})

OffchainIssued == \E i \in 1..Len(calls) : calls[i].svc = "offchain"

\* the caller's profile has been fetched
ProfileFetched == Len(calls) >= 2 /\ calls[2].op = "getUserProfile" /\ Succeeded(calls[2])

CallerWallet == Get(calls[2].reply.data, "walletAddress")

\* the recorded owner of the property the request names, in the list the Orchestrator returned
RecordedOwner ==
  Get(FindProperty(calls[1].reply.data, Number(Get(req.body, "matriculaId")), 1), "proprietario")

SameIgnoringCase(a, b) ==
  /\ Len(a) = Len(b)
  /\ \A i \in 1..Len(a) : LowerCase[a[i]] = LowerCase[b[i]]

CallerOwns ==
  /\ Truthy(CallerWallet)
  /\ Truthy(RecordedOwner)
  /\ SameIgnoringCase(CallerWallet.v, RecordedOwner.v)

C14_NoWalletIs400 ==
  (Configure /\ ProfileFetched /\ Falsy(CallerWallet)) =>
    /\ pc = "done"
    /\ resp.status = 400
    /\ thrown = AppError("Você precisa conectar sua carteira antes de transferir propriedades",
                         400, Undef)
    /\ Len(calls) = 2
    /\ ~OffchainIssued

C14_Witness ==
  /\ Configure
  /\ ProfileFetched
  /\ Falsy(CallerWallet)
  /\ Falsy(RecordedOwner)
  /\ resp.status = 400

Recipient == Get(req.body, "toWalletAddress")

Issued(op) == { i \in 1..Len(calls) : calls[i].op = op }

\* the answer of the identity query, once it has succeeded
RecipientVerified == Truthy(calls[3].reply.data)

\* C15: in POST /transfers/configure, once ownership is established the recipient wallet's
\* identity is queried; configureTransfer is issued only after that query succeeded and,
\* when it answered "not verified", after a registration call for the recipient succeeded;
\* when it answered "verified" no registration call is made; when the query or the
\* registration fails, the response is 500 and configureTransfer is never issued.
C15_RecipientIdentityFirst ==
  Configure =>
    /\ (ProfileFetched /\ CallerOwns /\ Truthy(Recipient)) =>
         (Len(calls) >= 3 /\ calls[3].op = "isIdentityVerified" /\ calls[3].body = Recipient)
    /\ Issued("isIdentityVerified") \subseteq {3}
    /\ Issued("registerIdentity") \subseteq {4}
    /\ \A i \in Issued("registerIdentity") :
         /\ Succeeded(calls[3])
         /\ ~RecipientVerified
         /\ calls[i].body = Recipient
    /\ \A i \in Issued("configureTransfer") :
         /\ Succeeded(calls[3])
         /\ IF RecipientVerified
            THEN Issued("registerIdentity") = {}
            ELSE Issued("registerIdentity") = {4} /\ Succeeded(calls[4]) /\ i > 4
    /\ \A i \in (Issued("isIdentityVerified") \cup Issued("registerIdentity")) :
         Failed(calls[i]) =>
           /\ pc = "done"
           /\ resp.status = 500
           /\ Len(calls) = i
           /\ Issued("configureTransfer") = {}

C15_Witness ==
  /\ Configure
  /\ pc = "done"
  /\ Issued("registerIdentity") = {4}
  /\ Succeeded(calls[4])
  /\ Issued("configureTransfer") # {}
  /\ resp.status = 200

IsActive(approver) == Truthy(Get(approver, "active"))

\* the wallets of the approvers reported active, in the order returned
ActiveReported(approvers) ==
  LET active == SelectSeq(approvers, IsActive)
  IN [k \in 1..Len(active) |-> Get(active[k], "wallet")]

\* C16: the approvers list passed to configureTransfer is never empty: it is the wallets of
\* the approvers reported active, in the order returned, when the approver fetch succeeded
\* with at least one active approver, and the single fixed fallback address when the fetch
\* failed or reported no active approver; a failed approver fetch does not fail the request.
C16_ApproverSet ==
  Configure =>
    /\ \A i \in Issued("configureTransfer") :
         LET fetch == calls[i - 1]
             approvers == Get(calls[i].body, "approvers").v
         IN /\ fetch.op = "getApprovers"
            /\ fetch.reply # Pending
            /\ Len(approvers) > 0
            /\ approvers = IF Succeeded(fetch) /\ Len(ActiveReported(fetch.reply.data)) > 0
                           THEN ActiveReported(fetch.reply.data)
                           ELSE <<Str("0x627306090abaB3A6e1400e9345bC60c78a8BEf57")>>
    /\ \A i \in Issued("getApprovers") :
         Failed(calls[i]) => (Len(calls) = i + 1 /\ calls[i + 1].op = "configureTransfer")

C16_Witness ==
  /\ Configure
  /\ pc = "done"
  /\ resp.status = 200
  /\ \E i \in Issued("configureTransfer") :
       /\ Failed(calls[i - 1])
       /\ Get(calls[i].body, "approvers") = Arr(<<FallbackApprover>>)

\* the errors an upstream call can end with, as axios reports them
UpstreamErrors == AxiosErrors \cup {AlreadyRegistered}

\* the error the client of svc raises for the axios error e
Raised(svc, e) == IF svc = "orchestrator" THEN OrchestratorInterceptor(e) ELSE OffchainInterceptor(e)

\* C17: registerIdentity does not throw when the Offchain API answers that the wallet is
\* already registered: it returns {success: true, alreadyRegistered: true}.
C17_RegisterIdentityIdempotent ==
  \A i \in Issued("registerIdentity") :
    /\ calls[i].reply # [ok |-> FALSE, err |-> Raised("offchain", AlreadyRegistered)]
    /\ (calls[i].reply # Pending /\ calls[i].reply.ok) =>
         calls[i].reply.data \in { Obj([success |-> Bool(TRUE)]),
                                   Obj([success |-> Bool(TRUE), alreadyRegistered |-> Bool(TRUE)]) }

DefaultMessage(svc) ==
  IF svc = "orchestrator" THEN "Orchestrator service error" ELSE "Blockchain service error"

Unavailable(svc) ==
  IF svc = "orchestrator" THEN "Orchestrator service is unavailable"
  ELSE "Blockchain service is unavailable"

\* the failure err is the classification of the axios error e by the client of svc
Classified(svc, e, err) ==
  /\ err.name = "AppError"
  /\ IF HasResponse(e)
     THEN /\ err.statusCode = e.response.status
          /\ err.message = IF Truthy(Get(e.response.data, "message"))
                           THEN Get(e.response.data, "message").v
                           ELSE DefaultMessage(svc)
     ELSE IF e.request
     THEN err.statusCode = 503 /\ err.message = Unavailable(svc)
     ELSE err.statusCode = 500

\* C18: every failed upstream call, of either client, ends with an AppError: with the
\* upstream's status and message (or the client's default message) when the upstream
\* answered with an error, 503 '<client> service is unavailable' when no response was
\* received, and 500 when the request could not be built.
C18_FailureClassification ==
  \A i \in 1..Len(calls) :
    Failed(calls[i]) =>
      \A e \in UpstreamErrors :
        calls[i].reply.err = Raised(calls[i].svc, e) => Classified(calls[i].svc, e, calls[i].reply.err)

\* C19: when the upstream's error response carries a field-level errors list, the error the
\* client raises carries that list, and the envelope sent for it has it in its errors field.
C19_ErrorsListPassedThrough ==
  \A i \in 1..Len(calls) :
    Failed(calls[i]) =>
      \A e \in UpstreamErrors :
        (/\ HasResponse(e)
         /\ Get(e.response.data, "errors").t = "array"
         /\ calls[i].reply.err = Raised(calls[i].svc, e)) =>
          /\ calls[i].reply.err.name = "AppError"
          /\ calls[i].reply.err.errors = Get(e.response.data, "errors")
          /\ (pc = "done" /\ thrown = calls[i].reply.err) =>
               Get(resp.body, "errors") = Get(e.response.data, "errors")

\* two entries of the call log are the same operation of the same client for the same key
SameCall(a, b) ==
  /\ a.svc = b.svc
  /\ a.op = b.op
  /\ [a EXCEPT !.reply = Pending] = [b EXCEPT !.reply = Pending]

\* C20: within one request no upstream operation is issued twice for the same key, so a
\* failed operation is never issued again; the fan-out of GET /properties/my issues one
\* enrichment per listed property; GET /transfers/:transferId/status issues the Offchain
\* transfer lookup at most once, on every path.
C20_NoRetries ==
  (pc # "idle") =>
    /\ (req.route # "GET /properties/my") =>
         \A i, j \in 1..Len(calls) : i < j => ~SameCall(calls[i], calls[j])
    /\ (req.route = "GET /properties/my" /\ Len(calls) >= 1 /\ Succeeded(calls[1])) =>
         Len(calls) <= 1 + Len(calls[1].reply.data)
    /\ (req.route = "GET /transfers/:transferId/status") =>
         Cardinality(Issued("getTransferFromBlockchain")) <= 1

\* C21: under FairSpec every request received is eventually answered; when it is answered
\* exactly one response has been written, none is written before that, and a failure that
\* left the handler has reached the error normalizer exactly once.
C21_ExactlyOneResponse ==
  /\ [](pc = "done" => /\ sent = 1
                        /\ resp # None
                        /\ handled = (IF thrown = None THEN 0 ELSE 1))
  /\ [](pc \notin {"idle", "done"} => sent = 0 /\ handled = 0 /\ resp = None)
  /\ ((pc # "idle") ~> (pc = "done"))

\* the status lookup answered by the error normalizer after its third upstream call failed
C21_Witness ==
  /\ OnRoute({"GET /transfers/:transferId/status"})
  /\ pc = "done"
  /\ Len(calls) = 3
  /\ Failed(calls[3])
  /\ thrown # None
  /\ sent = 1
  /\ handled = 1

\* the credential of the request verifies: well-formed header, valid signature, not expired
Verified == WellFormed(req.header) /\ "decoded" \in DOMAIN jwtVerify(req.header[2])

\* C22: once optionalAuth has run on a request, whatever its Authorization header, nothing
\* was thrown and no response was written, next was called exactly once, and the request
\* carries identity claims only if its credential verified.
C22_OptionalAuthNeverRejects ==
  (pc # "optionalAuth") =>
    /\ pc = "handler"
    /\ nexts = 1
    /\ thrown = None
    /\ resp = None
    /\ (user # None) => Verified

\* a forged credential under the verifying build: the failure was swallowed
C22_Witness ==
  /\ pc = "handler"
  /\ nexts = 1
  /\ authBuild = "verify"
  /\ req.header = <<"Bearer", "tok.forged">>
  /\ user = None

UserFields == {"id", "name", "email", "cpf", "walletAddress", "role", "active", "createdAt"}

\* C23: a login whose body has a non-empty email and a password issues exactly one call,
\* login on the Orchestrator with that body; when the call succeeded the response is 200
\* with exactly the fields token and user, user has exactly id, name, email, cpf,
\* walletAddress, role, active and createdAt, and each carries the value of the field of
\* that name in the Orchestrator's answer.
C23_LoginShape ==
  (OnRoute({"POST /auth/login"}) /\ handlerRan
     /\ Truthy(Get(req.body, "email")) /\ Truthy(Get(req.body, "password"))) =>
    /\ Len(calls) = 1
    /\ calls[1].svc = "orchestrator" /\ calls[1].op = "login" /\ calls[1].body = req.body
    /\ (pc = "done" /\ Succeeded(calls[1])) =>
         /\ resp.status = 200
         /\ resp.body.t = "object"
         /\ DOMAIN resp.body.v = {"token", "user"}
         /\ resp.body.v.token = Get(calls[1].reply.data, "token")
         /\ resp.body.v.user.t = "object"
         /\ DOMAIN resp.body.v.user.v = UserFields
         /\ \A f \in UserFields : resp.body.v.user.v[f] = Get(calls[1].reply.data, f)

\* a login answered from an Orchestrator record that carries a message
C23_Witness ==
  /\ OnRoute({"POST /auth/login"})
  /\ pc = "done"
  /\ Len(calls) = 1
  /\ Succeeded(calls[1])
  /\ "message" \in DOMAIN calls[1].reply.data.v
  /\ resp.status = 200
  /\ resp.body.v.user.v.id = Num(2)

\* the body carries a value for the field: the key is there and is neither undefined nor null
Present(body, field) == Get(body, field) \notin {Undef, Null}

\* C24: a property registration whose body carries all seven required fields, a numeric
\* field with value 0 included, issues registerProperty on the Orchestrator with the body
\* unchanged and the caller's bearer credential, and relays a success unchanged with 201.
C24_AllFieldsPresentIsForwarded ==
  (OnRoute({"POST /properties/register"}) /\ handlerRan
     /\ \A i \in 1..Len(requiredFields) : Present(req.body, requiredFields[i])) =>
    /\ Len(calls) = 1
    /\ calls[1].svc = "orchestrator" /\ calls[1].op = "registerProperty"
    /\ calls[1].body = req.body
    /\ calls[1].token = BearerToken(req.header)
    /\ (pc = "done" /\ Succeeded(calls[1])) =>
         resp = [status |-> 201, body |-> calls[1].reply.data]

TransfersMyAnswered == OnRoute({"GET /transfers/my"}) /\ pc = "done"

\* the elements of a body that is a list; null has none
Elements(body) == IF body.t = "array" THEN body.v ELSE <<>>

\* the transfer's matriculaId, as a string, is the matriculaId of one of the properties
OfOneOf(transfer, properties) ==
  LET m == OptGet(transfer, "matriculaId") IN
    /\ m.t \in {"number", "string"}
    /\ \E i \in 1..Len(properties) :
         JsToString(m) = JsToString(Get(properties[i], "matriculaId"))

\* C25: GET /transfers/my, both Orchestrator calls succeeded: the response is 200 with the
\* transfers of the second answer, in their order, whose matriculaId as a string is the
\* matriculaId of one of the properties of the first answer, and no others.
C25_TransfersOfOwnProperties ==
  (TransfersMyAnswered /\ Len(calls) = 2 /\ Succeeded(calls[1]) /\ Succeeded(calls[2])) =>
    LET properties == Elements(calls[1].reply.data) IN
      resp = [status |-> 200,
              body |-> Arr(SelectSeq(Elements(calls[2].reply.data),
                                     LAMBDA t : OfOneOf(t, properties)))]

\* a number on the transfer matched against the caller's properties, a transfer dropped
C25_Witness ==
  /\ TransfersMyAnswered
  /\ Len(calls) = 2
  /\ Succeeded(calls[1])
  /\ Succeeded(calls[2])
  /\ Len(Elements(calls[2].reply.data)) = 3
  /\ Len(resp.body.v) = 1
  /\ Get(resp.body.v[1], "matriculaId") = Num(1)

\* C26: GET /transfers/my is answered 200 with an empty list when the properties fetch
\* failed, and then no transfers fetch was issued, when the transfers fetch failed, and
\* when an answer was not a list; the failure never reaches the error normalizer.
C26_FailuresAnswerEmptyList ==
  (TransfersMyAnswered /\ Len(calls) >= 1) =>
    /\ Failed(calls[1]) => Len(calls) = 1
    /\ (\/ \E i \in 1..Len(calls) : Failed(calls[i])
        \/ \E i \in 1..Len(calls) : Succeeded(calls[i]) /\ calls[i].reply.data.t # "array") =>
         /\ resp = [status |-> 200, body |-> Arr(<<>>)]
         /\ thrown = None

\* the properties fetch failed with an error the client could not classify
C26_Witness ==
  /\ TransfersMyAnswered
  /\ Len(calls) = 1
  /\ Failed(calls[1])
  /\ calls[1].reply.err = TypeError("Cannot read properties of null (reading 'message')")
  /\ resp = [status |-> 200, body |-> Arr(<<>>)]

Called(op) == cacheOp # None /\ cacheOp.op = op

\* the latest read returned the latest write of its key when that write was not older than
\* maxAge at the time of the read and clearCache has not removed it since, and null otherwise
ReadsLatestWrite ==
  Called("getCached") =>
    LET w == written[cacheOp.key] IN
      cacheOp.result = IF w # None /\ cacheOp.at - w.timestamp <= cacheOp.arg.v
                       THEN w.data ELSE Null

\* as ReadsLatestWrite, for a write that no read has found expired since
ReadsLiveWrite ==
  Called("getCached") =>
    LET w == written[cacheOp.key] IN
      cacheOp.result = IF w # None /\ ~w.expired /\ cacheOp.at - w.timestamp <= cacheOp.arg.v
                       THEN w.data ELSE Null

\* this step is a read of key that finds its entry older than maxAge
ExpiredRead(key) ==
  /\ cacheOp' # cacheOp
  /\ cacheOp'.op = "getCached"
  /\ cacheOp'.key = key
  /\ cache[key] # None
  /\ clock - cache[key].timestamp > cacheOp'.arg.v

ExpiredReadRemoves == \A k \in CacheKeys : ExpiredRead(k) => cache'[k] = None

RemovedOnlyByReadOrClear ==
  \A k \in CacheKeys :
    (cache[k] # None /\ cache'[k] = None) =>
      \/ ExpiredRead(k)
      \/ cacheOp' # cacheOp /\ cacheOp'.op = "clearCache"

\* C29, as stated: a read returns the latest write of its key if it is at most maxAge old
\* and not cleared since, and null otherwise; a read that finds its entry older than
\* maxAge removes it; an entry is removed by such a read or by clearCache only.
C29_ExpiryOnRead ==
  /\ []ReadsLatestWrite
  /\ [][ExpiredReadRemoves]_vars
  /\ [][RemovedOnlyByReadOrClear]_vars

\* C29, amended: a read returns the latest write of its key if it is at most maxAge old and
\* the entry has since been neither cleared nor removed by a read that found it expired,
\* and null otherwise; a read that finds its entry older than maxAge removes it; an entry
\* is removed by such a read or by clearCache only.
C29_ExpiryOnReadAmended ==
  /\ []ReadsLiveWrite
  /\ [][ExpiredReadRemoves]_vars
  /\ [][RemovedOnlyByReadOrClear]_vars

\* a read with a large maxAge misses an entry that an earlier read with a small maxAge removed
C29_Witness ==
  /\ Called("getCached")
  /\ cacheOp.result = Null
  /\ written[cacheOp.key] # None
  /\ written[cacheOp.key].expired
  /\ cacheOp.at - written[cacheOp.key].timestamp <= cacheOp.arg.v
  /\ cache[cacheOp.key] = None

\* pattern occurs in key: key is some text, then pattern, then some text
Contains(key, pattern) ==
  \E i \in 0..Len(key), j \in 0..Len(key) : i <= j /\ SubSeq(key, i + 1, j) = pattern

\* C30: clearCache(pattern) with a non-empty pattern removes the entries whose key contains
\* the pattern and leaves every other entry as it was, value and timestamp; with no
\* pattern or an empty one it removes every entry.
C30_ClearFrame ==
  [][(cacheOp' # cacheOp /\ cacheOp'.op = "clearCache") =>
       \A k \in CacheKeys :
         cache'[k] = IF Falsy(cacheOp'.arg) \/ Contains(k, cacheOp'.arg.v)
                     THEN None ELSE cache[k]]_vars

\* clearCache('p') has left the entry of key 't1' in place and none under 'p1'
C30_Witness ==
  /\ Called("clearCache")
  /\ cacheOp.arg = Str(<<"p">>)
  /\ cache[<<"t", "1">>] # None
  /\ cache[<<"p", "1">>] = None

\* two requests that are the same and whose upstream calls were answered the same have
\* the same response
Determined ==
  (pc = "done" /\ parked.pc = "done" /\ parked.req = req /\ parked.calls = calls) =>
    /\ parked.resp = resp
    /\ parked.thrown = thrown

\* a step that changes what the other request holds is the event loop turning to it
OnlySwitchTouchesParked ==
  (parked' # parked) => (parked' = Context /\ Context' = parked)

\* C28: with two requests in flight and their handler steps interleaved in any order, the
\* response to a request is a function of the request and of the replies to its own calls;
\* no step of a handler changes the cache, and none changes what the other request holds.
C28_NoInterference ==
  /\ []Determined
  /\ [][cache' = cache /\ written' = written /\ cacheOp' = cacheOp]_vars
  /\ [][OnlySwitchTouchesParked]_vars

\* a request answered after two upstream calls while the same request is suspended at an await
C28_Witness ==
  /\ pc = "done"
  /\ Len(calls) >= 2
  /\ parked.req = req
  /\ parked.pc \notin {"idle", "guard", "handler", "done"}
  /\ Len(parked.calls) >= 1

====
